---- MODULE Spec2Model ----
(***************************************************************************)
(* Model of src/advanced_evaluation.py: the AdvancedEvaluation engine.     *)
(*                                                                         *)
(* Python dicts keep insertion order, and the engine depends on it, so a   *)
(* dict is a sequence of entries with distinct keys.  Floats are exact     *)
(* rationals <<n, d>> in lowest terms with d > 0.  Discounted gains use    *)
(* log2 and are kept symbolically, as the ranks whose discount is summed.  *)
(***************************************************************************)
EXTENDS Integers, Sequences, FiniteSets, TLC

\* ------------------------------------------------------------------ bounds
\* Requests of the small input family are numbered 1..MaxPRs.
MaxPRs == 2
\* Requests of the long input family: MIN_SAMPLES-1 .. MaxLongPRs.
MaxLongPRs == 11

\* ------------------------------------------------------- program constants
\* `min_length >= 10`: the sample threshold of the significance tests.
MIN_SAMPLES == 10
\* `sorted_recs[:10]`, `min(len(actual_reviewers), 10)`: the DCG cut-off.
DCG_CUTOFF == 10
\* friedmanchisquare raises ValueError when given fewer than 3 samples.
FRIEDMAN_MIN_GROUPS == 3

k_values == <<1, 3, 5, 10>>

AlgoNames == <<"RevFinder", "ChRev", "TurnoverRec", "Sofia">>

\* ---------------------------------------------------------------- helpers
Min(a, b) == IF a <= b THEN a ELSE b

Range(s) == {s[i] : i \in DOMAIN s}

RECURSIVE GCD(_, _)
GCD(a, b) == IF b = 0 THEN a ELSE GCD(b, a % b)

\* n / d as a Python float, kept exact.
Frac(n, d) == IF n = 0 THEN <<0, 1>> ELSE LET g == GCD(n, d) IN <<n \div g, d \div g>>

FZero == <<0, 1>>
\* Sums and differences go through the least common denominator.
FAdd(x, y) ==
    LET g == GCD(x[2], y[2])
    IN Frac(x[1] * (y[2] \div g) + y[1] * (x[2] \div g), (x[2] \div g) * y[2])
FMul(x, y) == Frac(x[1] * y[1], x[2] * y[2])
FDiv(x, y) == Frac(x[1] * y[2], x[2] * y[1])
FLess(x, y) == x[1] * y[2] < y[1] * x[2]
FLeq(x, y) == x[1] * y[2] <= y[1] * x[2]

RECURSIVE FSum(_)
FSum(s) == IF s = <<>> THEN FZero ELSE FAdd(s[1], FSum(Tail(s)))

\* np.mean of a non-empty list.
Mean(s) == FDiv(FSum(s), <<Len(s), 1>>)

RECURSIVE ISum(_)
ISum(s) == IF s = <<>> THEN 0 ELSE s[1] + ISum(Tail(s))

\* ------------------------------------------------------ dict-as-sequence
\* `key in d` for a dict whose entries carry their key in field pr.
HasPR(d, p) == \E i \in DOMAIN d : d[i].pr = p
GetPR(d, p) == d[CHOOSE i \in DOMAIN d : d[i].pr = p]

\* d[key] = value: a new key is appended, an old key keeps its position.
DictSet(d, e) ==
    IF HasPR(d, e.pr)
    THEN [i \in DOMAIN d |-> IF d[i].pr = e.pr THEN e ELSE d[i]]
    ELSE Append(d, e)

\* ------------------------------------------------------------ ground truth
\* Mutant: the test `review.pull_number == pr.number` is dropped.
ReviewersOfAnyRequest(reviews, p) ==
    {reviews[i].reviewer_username : i \in DOMAIN reviews}

\* [review.reviewer_username for review in reviews_list
\*      if review.pull_number == pr.number], as the set the code makes of it.
ReviewersOf(reviews, p) ==
    {reviews[i].reviewer_username : i \in {j \in DOMAIN reviews : reviews[j].pull_number = p}}

\* The loop of _build_ground_truth over the first n requests.
RECURSIVE BuildUpTo(_, _, _)
BuildUpTo(prs, reviews, n) ==
    IF n = 0 THEN <<>>
    ELSE LET gt == BuildUpTo(prs, reviews, n - 1)
             rs == ReviewersOf(reviews, prs[n])
         IN IF rs # {} THEN DictSet(gt, [pr |-> prs[n], reviewers |-> rs]) ELSE gt

BuildGroundTruth(prs, reviews) == BuildUpTo(prs, reviews, Len(prs))

\* ------------------------------------------------------ per-item metrics
\* Mutant: the sort is not stable, a candidate goes before those of equal score.
InsertDescBeforeTies(sorted, x) ==
    LET c == Cardinality({i \in DOMAIN sorted : sorted[i][2] > x[2]})
    IN SubSeq(sorted, 1, c) \o <<x>> \o SubSeq(sorted, c + 1, Len(sorted))

\* Mutant: the sort is ascending, the lowest score first.
InsertAsc(sorted, x) ==
    LET c == Cardinality({i \in DOMAIN sorted : sorted[i][2] <= x[2]})
    IN SubSeq(sorted, 1, c) \o <<x>> \o SubSeq(sorted, c + 1, Len(sorted))

\* sorted(items, key=score, reverse=True): stable, descending by score.
InsertDesc(sorted, x) ==
    LET c == Cardinality({i \in DOMAIN sorted : sorted[i][2] >= x[2]})
    IN SubSeq(sorted, 1, c) \o <<x>> \o SubSeq(sorted, c + 1, Len(sorted))

RECURSIVE SortUpTo(_, _)
SortUpTo(items, n) ==
    IF n = 0 THEN <<>> ELSE InsertDesc(SortUpTo(items, n - 1), items[n])

SortedRecs(items) == SortUpTo(items, Len(items))

\* Mutant: the slice keeps the k-th recommendation only, sorted_recs[k-1:k].
TopKthOnly(sorted_recs, k) ==
    [i \in 1..(IF k <= Len(sorted_recs) THEN 1 ELSE 0) |-> sorted_recs[k][1]]

\* [rec[0] for rec in sorted_recs[:k]]
TopK(sorted_recs, k) == [i \in 1..Min(k, Len(sorted_recs)) |-> sorted_recs[i][1]]

\* len(set(top_k) & actual_reviewers)
NumCorrect(sorted_recs, actual, k) == Cardinality(Range(TopK(sorted_recs, k)) \cap actual)

\* Mutant: the denominator is the length of the prefix, not k.
PrecisionAtPrefix(sorted_recs, actual, k) ==
    IF Min(k, Len(sorted_recs)) > 0
    THEN Frac(Cardinality(Range(TopK(sorted_recs, k)) \cap actual), Min(k, Len(sorted_recs)))
    ELSE FZero

PrecisionAt(sorted_recs, actual, k) ==
    IF k > 0 THEN Frac(NumCorrect(sorted_recs, actual, k), k) ELSE FZero

RecallAt(sorted_recs, actual, k) ==
    IF actual # {} THEN Frac(NumCorrect(sorted_recs, actual, k), Cardinality(actual)) ELSE FZero

F1At(sorted_recs, actual, k) ==
    LET p == PrecisionAt(sorted_recs, actual, k)
        r == RecallAt(sorted_recs, actual, k)
    IN IF FLess(FZero, FAdd(p, r))
       THEN FDiv(FMul(<<2, 1>>, FMul(p, r)), FAdd(p, r))
       ELSE FZero

\* Mutant: a hit only counts the first recommendation.
HitAtFirst(sorted_recs, actual, k) == IF NumCorrect(sorted_recs, actual, 1) > 0 THEN 1 ELSE 0

HitAt(sorted_recs, actual, k) == IF NumCorrect(sorted_recs, actual, k) > 0 THEN 1 ELSE 0

\* The ranks (1-indexed) of the recommended reviewers that are actual reviewers.
RelevantRanks(sorted_recs, actual) == {i \in DOMAIN sorted_recs : sorted_recs[i][1] \in actual}

\* Mutant: the scan stops after the first ten recommendations.
ReciprocalRankTop10(sorted_recs, actual) ==
    LET rr == {r \in RelevantRanks(sorted_recs, actual) : r <= 10}
    IN IF rr = {} THEN FZero
       ELSE Frac(1, CHOOSE r \in rr : \A q \in rr : r <= q)

\* The first matching rank yields 1/rank, none yields 0.
ReciprocalRank(sorted_recs, actual) ==
    LET rr == RelevantRanks(sorted_recs, actual)
    IN IF rr = {} THEN FZero
       ELSE Frac(1, CHOOSE r \in rr : \A q \in rr : r <= q)

\* Mutant: precisions[i] = i / rank, the match itself is not counted.
RECURSIVE PrecisionsZeroBased(_, _)
PrecisionsZeroBased(rr, seen) ==
    IF rr = {} THEN <<>>
    ELSE LET r == CHOOSE x \in rr : \A q \in rr : x <= q
         IN <<Frac(seen, r)>> \o PrecisionsZeroBased(rr \ {r}, seen + 1)

\* precisions[i] = (i + 1) / rank over the relevant ranks in increasing order.
RECURSIVE PrecisionsAtRanks(_, _)
PrecisionsAtRanks(rr, seen) ==
    IF rr = {} THEN <<>>
    ELSE LET r == CHOOSE x \in rr : \A q \in rr : x <= q
         IN <<Frac(seen + 1, r)>> \o PrecisionsAtRanks(rr \ {r}, seen + 1)

AveragePrecision(sorted_recs, actual) ==
    LET rr == RelevantRanks(sorted_recs, actual)
    IN IF rr # {} THEN Mean(PrecisionsAtRanks(rr, 0)) ELSE FZero

\* dcg = sum of 1/log2(rank + 1) over the relevant ranks of sorted_recs[:10]:
\* kept as that set of ranks.
DcgRanks(sorted_recs, actual) ==
    {r \in RelevantRanks(sorted_recs, actual) : r <= DCG_CUTOFF}

\* Mutant: the ideal list holds one reviewer only.
NumRelevantOne(actual) == Min(Cardinality(actual), 1)

\* idcg = sum of 1/log2(rank + 1) over ranks 1..num_relevant; ndcg = dcg / idcg,
\* kept as the pair of rank sets.
NumRelevant(actual) == Min(Cardinality(actual), DCG_CUTOFF)

Ndcg(sorted_recs, actual) ==
    [dcg |-> IF NumRelevant(actual) > 0 THEN DcgRanks(sorted_recs, actual) ELSE {},
     idcg |-> 1..NumRelevant(actual)]

\* f'precision_at_{k}' and the like.
Key(prefix, k) == prefix \o ToString(k)

KSet == Range(k_values)

\* per_pr_metrics = {'mrr_scores': [], ...}: the 20 empty per-item lists.
EmptyPerPr ==
    [mrr_scores |-> <<>>, ap_scores |-> <<>>, dcg_scores |-> <<>>, ndcg_scores |-> <<>>,
     precision_at_1 |-> <<>>, precision_at_3 |-> <<>>,
     precision_at_5 |-> <<>>, precision_at_10 |-> <<>>,
     recall_at_1 |-> <<>>, recall_at_3 |-> <<>>,
     recall_at_5 |-> <<>>, recall_at_10 |-> <<>>,
     f1_at_1 |-> <<>>, f1_at_3 |-> <<>>, f1_at_5 |-> <<>>, f1_at_10 |-> <<>>,
     hit_at_1 |-> <<>>, hit_at_3 |-> <<>>, hit_at_5 |-> <<>>, hit_at_10 |-> <<>>]

PerPrKeys == DOMAIN EmptyPerPr

\* One pass of the loop body for a valid request: every per-item list grows by
\* the scalar computed for the request.
AppendItem(m, sorted_recs, actual) ==
    [mrr_scores |-> Append(m.mrr_scores, ReciprocalRank(sorted_recs, actual)),
     ap_scores |-> Append(m.ap_scores, AveragePrecision(sorted_recs, actual)),
     dcg_scores |-> Append(m.dcg_scores, DcgRanks(sorted_recs, actual)),
     ndcg_scores |-> Append(m.ndcg_scores, Ndcg(sorted_recs, actual)),
     precision_at_1 |-> Append(m.precision_at_1, PrecisionAt(sorted_recs, actual, 1)),
     precision_at_3 |-> Append(m.precision_at_3, PrecisionAt(sorted_recs, actual, 3)),
     precision_at_5 |-> Append(m.precision_at_5, PrecisionAt(sorted_recs, actual, 5)),
     precision_at_10 |-> Append(m.precision_at_10, PrecisionAt(sorted_recs, actual, 10)),
     recall_at_1 |-> Append(m.recall_at_1, RecallAt(sorted_recs, actual, 1)),
     recall_at_3 |-> Append(m.recall_at_3, RecallAt(sorted_recs, actual, 3)),
     recall_at_5 |-> Append(m.recall_at_5, RecallAt(sorted_recs, actual, 5)),
     recall_at_10 |-> Append(m.recall_at_10, RecallAt(sorted_recs, actual, 10)),
     f1_at_1 |-> Append(m.f1_at_1, F1At(sorted_recs, actual, 1)),
     f1_at_3 |-> Append(m.f1_at_3, F1At(sorted_recs, actual, 3)),
     f1_at_5 |-> Append(m.f1_at_5, F1At(sorted_recs, actual, 5)),
     f1_at_10 |-> Append(m.f1_at_10, F1At(sorted_recs, actual, 10)),
     hit_at_1 |-> Append(m.hit_at_1, HitAt(sorted_recs, actual, 1)),
     hit_at_3 |-> Append(m.hit_at_3, HitAt(sorted_recs, actual, 3)),
     hit_at_5 |-> Append(m.hit_at_5, HitAt(sorted_recs, actual, 5)),
     hit_at_10 |-> Append(m.hit_at_10, HitAt(sorted_recs, actual, 10))]

\* Mutant: the counter of k is increased for every valid request.
BumpHitsAlways(hits_at_k, sorted_recs, actual) ==
    [k \in KSet |-> hits_at_k[k] + 1]

\* hits_at_k[k] += 1 when hit.
BumpHits(hits_at_k, sorted_recs, actual) ==
    [k \in KSet |-> hits_at_k[k] + HitAt(sorted_recs, actual, k)]

\* ------------------------------------------------------- basic statistics
\* A request's entry of an algorithm result is well formed when its value is a
\* dict of scores; the value None stands for a malformed entry.
WellFormed(algo_result) == \A i \in DOMAIN algo_result : algo_result[i].ok

\* len(set(dev for scores in algo_result.values() for dev in scores.keys()))
DevelopersRecommended(algo_result) ==
    Cardinality(UNION {{algo_result[i].items[j][1] : j \in DOMAIN algo_result[i].items} :
                          i \in DOMAIN algo_result})

\* [score for scores in algo_result.values() for score in scores.values()]
RECURSIVE AllScores(_)
AllScores(algo_result) ==
    IF algo_result = <<>> THEN <<>>
    ELSE [j \in DOMAIN algo_result[1].items |-> algo_result[1].items[j][2]]
             \o AllScores(Tail(algo_result))

RECURSIVE IMax(_)
IMax(s) == IF Len(s) = 1 THEN s[1] ELSE LET m == IMax(Tail(s)) IN IF s[1] >= m THEN s[1] ELSE m

RECURSIVE IMin(_)
IMin(s) == IF Len(s) = 1 THEN s[1] ELSE LET m == IMin(Tail(s)) IN IF s[1] <= m THEN s[1] ELSE m

\* score_stats; median and std are not represented.
ScoreStats(all_scores) ==
    IF all_scores # <<>>
    THEN [mean |-> Frac(ISum(all_scores), Len(all_scores)),
          min |-> IMin(all_scores),
          max |-> IMax(all_scores),
          range |-> IMax(all_scores) - IMin(all_scores)]
    ELSE <<>>

\* ------------------------------------------------------ stability metrics
FSub(x, y) ==
    LET g == GCD(x[2], y[2])
    IN Frac(x[1] * (y[2] \div g) - y[1] * (x[2] \div g), (x[2] \div g) * y[2])

FInsertAsc(sorted, x) ==
    LET c == Cardinality({i \in DOMAIN sorted : FLeq(sorted[i], x)})
    IN SubSeq(sorted, 1, c) \o <<x>> \o SubSeq(sorted, c + 1, Len(sorted))

RECURSIVE FSortUpTo(_, _)
FSortUpTo(s, n) == IF n = 0 THEN <<>> ELSE FInsertAsc(FSortUpTo(s, n - 1), s[n])

\* np.percentile(scores, q): linear interpolation between order statistics.
Percentile(scores, q) ==
    LET sorted == FSortUpTo(scores, Len(scores))
        n == Len(scores)
        lo == ((n - 1) * q) \div 100
        rem == ((n - 1) * q) % 100
        hi == Min(lo + 2, n)
    IN FAdd(sorted[lo + 1], FMul(FSub(sorted[hi], sorted[lo + 1]), Frac(rem, 100)))

\* np.std(scores) ** 2: the population variance.
Variance(scores) ==
    LET m == Mean(scores)
    IN FSub(Mean([i \in DOMAIN scores |-> FMul(scores[i], scores[i])]), FMul(m, m))

\* The five statistics every stability record holds; std is the square root of
\* the variance and is kept as its square.
StabilityOf(scores) ==
    [q1 |-> Percentile(scores, 25),
     q3 |-> Percentile(scores, 75),
     iqr |-> FSub(Percentile(scores, 75), Percentile(scores, 25)),
     median |-> Percentile(scores, 50),
     std |-> [sqrt_of |-> Variance(scores)]]

\* The record of 'mrr' adds cv = std / mean when mean > 0, else 0.
MrrStability(scores) ==
    LET s == StabilityOf(scores)
        m == Mean(scores)
    IN [q1 |-> s.q1, q3 |-> s.q3, iqr |-> s.iqr, median |-> s.median, std |-> s.std,
        cv |-> IF FLess(FZero, m)
               THEN [sqrt_of |-> FDiv(Variance(scores), FMul(m, m))]
               ELSE [sqrt_of |-> FZero]]

StabilityMetrics(per_pr_metrics) ==
    IF per_pr_metrics["mrr_scores"] # <<>>
    THEN [name \in {"mrr"} \cup {n \in {"ap_scores", "precision_at_5", "recall_at_5"} :
                                    per_pr_metrics[n] # <<>>} |->
            IF name = "mrr" THEN MrrStability(per_pr_metrics["mrr_scores"])
            ELSE StabilityOf(per_pr_metrics[name])]
    ELSE <<>>

\* ------------------------------------------------------------- the bundle
PrecisionMetrics(per_pr_metrics, hits_at_k, valid_prs) ==
    [key \in {Key("precision_at_", k) : k \in KSet} \cup {Key("hit_rate_at_", k) : k \in KSet} |->
        IF \E k \in KSet : key = Key("precision_at_", k)
        THEN Mean(per_pr_metrics[key])
        ELSE Frac(hits_at_k[CHOOSE k \in KSet : key = Key("hit_rate_at_", k)], valid_prs)]

MeansOf(per_pr_metrics, prefix) ==
    [key \in {Key(prefix, k) : k \in KSet} |-> Mean(per_pr_metrics[key])]

\* sum(1 for rr in reciprocal_ranks if rr > 0)
SuccessfulRecommendations(mrr_scores) ==
    Cardinality({i \in DOMAIN mrr_scores : FLess(FZero, mrr_scores[i])})

\* The `metrics` dict compiled at the end of _calculate_algorithm_metrics.
\* avg_dcg and avg_ndcg are means of sums of log2 discounts: each is kept as the
\* list it is the mean of.
CompileMetrics(acc, ground_truth_len) ==
    [basic_stats |->
        [total_prs_analyzed |-> acc.total_prs_analyzed,
         developers_recommended |-> acc.developers_recommended,
         valid_prs |-> acc.valid_prs,
         coverage |-> IF ground_truth_len > 0 THEN Frac(acc.valid_prs, ground_truth_len)
                      ELSE FZero],
     score_distribution |-> acc.score_stats,
     precision_metrics |->
        IF acc.valid_prs > 0
        THEN PrecisionMetrics(acc.per_pr_metrics, acc.hits_at_k, acc.valid_prs) ELSE <<>>,
     recall_metrics |->
        IF acc.valid_prs > 0 THEN MeansOf(acc.per_pr_metrics, "recall_at_") ELSE <<>>,
     f1_metrics |->
        IF acc.valid_prs > 0 THEN MeansOf(acc.per_pr_metrics, "f1_at_") ELSE <<>>,
     ranking_metrics |->
        IF acc.valid_prs > 0
        THEN [mrr |-> Mean(acc.per_pr_metrics["mrr_scores"]),
              map |-> Mean(acc.per_pr_metrics["ap_scores"]),
              avg_dcg |-> [mean_of |-> acc.per_pr_metrics["dcg_scores"]],
              avg_ndcg |-> [mean_of |-> acc.per_pr_metrics["ndcg_scores"]]]
        ELSE <<>>,
     stability_metrics |-> StabilityMetrics(acc.per_pr_metrics),
     per_pr_scores |-> acc.per_pr_metrics,
     other_metrics |->
        IF acc.valid_prs > 0
        THEN [successful_recommendations |->
                  SuccessfulRecommendations(acc.per_pr_metrics["mrr_scores"]),
              recommendation_success_rate |->
                  Frac(SuccessfulRecommendations(acc.per_pr_metrics["mrr_scores"]),
                       acc.valid_prs)]
        ELSE <<>>]

\* The accumulators as _calculate_algorithm_metrics sets them before its loop.
\* The local lists reciprocal_ranks, average_precisions, dcg_scores, ndcg_scores,
\* precision_at_k, recall_at_k and f1_at_k receive the same appends as the lists
\* of per_pr_metrics and are read from them.
NewAccumulators(algo_name, algo_result) ==
    [name |-> algo_name,
     total_prs_analyzed |-> Len(algo_result),
     developers_recommended |-> DevelopersRecommended(algo_result),
     score_stats |-> ScoreStats(AllScores(algo_result)),
     per_pr_metrics |-> EmptyPerPr,
     hits_at_k |-> [k \in KSet |-> 0],
     valid_prs |-> 0,
     pr_nums |-> <<>>]

NoAccumulators == [name |-> ""]

\* ------------------------------------------------------------------ state
VARIABLES
    pull_requests_list,  \* manager.pull_requests_list, as the request numbers
    reviews_list,        \* manager.reviews_list
    algorithm_results,   \* the argument of evaluate_algorithms, in dict order
    ground_truth,        \* self.ground_truth
    pc,                  \* the position of the run
    algo_idx,            \* the loop over algorithm_results.items()
    gt_idx,              \* the loop over self.ground_truth.items()
    acc,                 \* the locals of _calculate_algorithm_metrics
    detailed_metrics,    \* the bundle set, in dict order
    scored_prs,          \* per bundle, the requests its per-item lists were built from
    stat,                \* the locals of _perform_statistical_testing
    comparison,          \* the rows of the comparison table
    rankings,            \* the six rankings of _display_rankings
    insights,            \* the best performers of _display_performance_insights
    log,                 \* notices and file writes, in order
    returned,            \* what evaluate_algorithms handed to its caller
    first_run            \* what an earlier call on the same inputs returned

vars == <<pull_requests_list, reviews_list, algorithm_results, ground_truth, pc,
          algo_idx, gt_idx, acc, detailed_metrics, scored_prs, stat, comparison,
          log, returned, rankings, insights, first_run>>

inputs == <<pull_requests_list, reviews_list, algorithm_results>>

\* float('inf')
Inf == 1000000

NoStat == [min_length |-> Inf, n_scores |-> 0, friedman |-> "not_run", pairs |-> <<>>,
           i |-> 0, j |-> 0]

NotReturned == [kind |-> "running", value |-> <<>>]

\* No earlier call was made.
NoRun == [kind |-> "none", value |-> <<>>]

\* Nothing has been compared yet.
NoInsights == [best_mrr |-> "", best_map |-> "", best_f1_5 |-> "", most_stable |-> <<>>]

\* ----------------------------------------------------------------- inputs
Review(p, d) == [pull_number |-> p, reviewer_username |-> d]

Entry(p, items) == [pr |-> p, ok |-> TRUE, items |-> items]
NoneEntry(p) == [pr |-> p, ok |-> FALSE, items |-> <<>>]

\* The reviewers recorded for one request of the small family: none or two.
ReviewerChoices == {<<>>, <<"alice", "bob">>}

\* reviews_list: the records of requests 1..n, request by request.
RECURSIVE ReviewsOf(_, _)
ReviewsOf(rc, n) ==
    IF n = 0 THEN <<>>
    ELSE ReviewsOf(rc, n - 1) \o [i \in DOMAIN rc[n] |-> Review(n, rc[n][i])]

\* What an algorithm of the small family holds for request p: no entry, an
\* empty dict, or a dict that ranks alice second once sorted; for request 1
\* also a malformed entry (None).
RecChoices(p) ==
    {[kind |-> "absent", items |-> <<>>],
     [kind |-> "dict", items |-> <<>>],
     [kind |-> "dict", items |-> << <<"alice", 1>>, <<"carol", 2>> >>]}
        \cup (IF p = 1 THEN {[kind |-> "none", items |-> <<>>]} ELSE {})

\* An algorithm result over requests 1..n, from one choice per request.
RECURSIVE ResultOf(_, _)
ResultOf(f, n) ==
    IF n = 0 THEN <<>>
    ELSE ResultOf(f, n - 1) \o
            (CASE f[n].kind = "absent" -> <<>>
               [] f[n].kind = "none" -> <<NoneEntry(n)>>
               [] OTHER -> <<Entry(n, f[n].items)>>)

Input(prs, reviews, algos) == [prs |-> prs, reviews |-> reviews, algos |-> algos]

\* The small family: up to MaxPRs requests, up to two algorithms with any entry
\* for each request number.
SmallAlgos ==
    LET F == {f \in [1..MaxPRs -> UNION {RecChoices(p) : p \in 1..MaxPRs}] :
                 \A p \in 1..MaxPRs : f[p] \in RecChoices(p)}
        R == {ResultOf(f, MaxPRs) : f \in F}
    IN {<<>>}
         \cup {<<[name |-> AlgoNames[1], result |-> r]>> : r \in R}
         \cup {<<[name |-> AlgoNames[1], result |-> r1],
                 [name |-> AlgoNames[2], result |-> r2]>> : r1 \in R, r2 \in R}

SmallInputs ==
    {Input([i \in 1..n |-> i], ReviewsOf(rc, n), a) :
        n \in 0..MaxPRs, rc \in [1..MaxPRs -> ReviewerChoices], a \in SmallAlgos}

\* The long family: enough requests for the significance tests.  Every request
\* was reviewed by alice; each algorithm covers requests lo..n and ranks alice
\* first, second, or first on odd requests and second on even ones.
LongList(pattern, p) ==
    CASE pattern = "first" -> << <<"alice", 2>> >>
      [] pattern = "second" -> << <<"bob", 2>>, <<"alice", 1>> >>
      [] OTHER -> IF p % 2 = 1 THEN << <<"alice", 2>> >> ELSE << <<"bob", 2>>, <<"alice", 1>> >>

LongResult(lo, n, pattern) == [i \in 1..(n - lo + 1) |-> Entry(lo + i - 1, LongList(pattern, lo + i - 1))]

LongAlgos(n) ==
    LET R == {LongResult(lo, n, pat) : lo \in 1..2, pat \in {"first", "second", "alternate"}}
    IN {<<[name |-> AlgoNames[1], result |-> r1],
          [name |-> AlgoNames[2], result |-> r2]>> : r1 \in R, r2 \in R}
         \cup {<<[name |-> AlgoNames[1], result |-> r1],
                 [name |-> AlgoNames[2], result |-> r2],
                 [name |-> AlgoNames[3], result |-> r3]>> : r1 \in R, r2 \in R, r3 \in R}

LongInputs ==
    UNION {{Input([i \in 1..n |-> i], [i \in 1..n |-> Review(i, "alice")], a) : a \in LongAlgos(n)} :
              n \in (MIN_SAMPLES - 1)..MaxLongPRs}

Init ==
    /\ \E inp \in SmallInputs \cup LongInputs :
          /\ pull_requests_list = inp.prs
          /\ reviews_list = inp.reviews
          /\ algorithm_results = inp.algos
    /\ ground_truth = <<>>
    /\ pc = "new"
    /\ algo_idx = 0
    /\ gt_idx = 0
    /\ acc = NoAccumulators
    /\ detailed_metrics = <<>>
    /\ scored_prs = <<>>
    /\ stat = NoStat
    /\ comparison = <<>>
    /\ log = <<>>
    /\ returned = NotReturned
    /\ rankings = <<>>
    /\ insights = NoInsights
    /\ first_run = NoRun

\* ------------------------------------------------------------ construction
\* AdvancedEvaluation.__init__
Construct ==
    /\ pc = "new"
    /\ ground_truth' = BuildGroundTruth(pull_requests_list, reviews_list)
    /\ pc' = "ready"
    /\ UNCHANGED <<inputs, first_run, rankings, insights, algo_idx, gt_idx, acc, detailed_metrics, scored_prs, stat,
                   comparison, log, returned>>

\* ------------------------------------------------------ evaluate_algorithms
\* Mutant: the check of the ground truth is dropped.
EmptyInputAlgorithmsOnly == algorithm_results = <<>>

\* `if not algorithm_results: return {}` and `if not self.ground_truth: return {}`
EmptyInput == algorithm_results = <<>> \/ ground_truth = <<>>

EvaluateEmpty ==
    /\ pc = "ready"
    /\ EmptyInput
    /\ log' = Append(log, IF algorithm_results = <<>> THEN "no_algorithm_results"
                          ELSE "no_ground_truth")
    /\ returned' = [kind |-> "value", value |-> <<>>]
    /\ pc' = "done"
    /\ UNCHANGED <<inputs, first_run, rankings, insights, ground_truth, algo_idx, gt_idx, acc, detailed_metrics,
                   scored_prs, stat, comparison>>

EvaluateBegin ==
    /\ pc = "ready"
    /\ ~EmptyInput
    /\ algo_idx' = 1
    /\ pc' = "algo_loop"
    /\ UNCHANGED <<inputs, first_run, rankings, insights, ground_truth, gt_idx, acc, detailed_metrics, scored_prs,
                   stat, comparison, log, returned>>

InAlgoLoop == pc = "algo_loop" /\ algo_idx <= Len(algorithm_results)

\* Mutant: an empty algorithm result is not skipped.
IsEmptyResultNever(algo_result) == FALSE

\* `not algo_result`
IsEmptyResult(algo_result) == algo_result = <<>>

\* `if not algo_result: continue`
SkipEmptyAlgo ==
    /\ InAlgoLoop
    /\ IsEmptyResult(algorithm_results[algo_idx].result)
    /\ log' = Append(log, "no_results_from")
    /\ algo_idx' = algo_idx + 1
    /\ UNCHANGED <<inputs, first_run, rankings, insights, ground_truth, pc, gt_idx, acc, detailed_metrics, scored_prs,
                   stat, comparison, returned>>

\* _calculate_algorithm_metrics up to its loop.
\* Mutant: the count of valid requests is kept on the engine and a second run
\* starts from what the first run left.
CalcBeginKeepsCount ==
    /\ InAlgoLoop
    /\ algorithm_results[algo_idx].result # <<>>
    /\ WellFormed(algorithm_results[algo_idx].result)
    /\ acc' = [NewAccumulators(algorithm_results[algo_idx].name,
                               algorithm_results[algo_idx].result)
                  EXCEPT !.valid_prs = Len(first_run.value)]
    /\ gt_idx' = 1
    /\ pc' = "pr_loop"
    /\ UNCHANGED <<inputs, first_run, rankings, insights, ground_truth, algo_idx, detailed_metrics,
                   scored_prs, stat, comparison, log, returned>>

CalcBegin ==
    /\ InAlgoLoop
    /\ ~IsEmptyResult(algorithm_results[algo_idx].result)
    /\ WellFormed(algorithm_results[algo_idx].result)
    /\ acc' = NewAccumulators(algorithm_results[algo_idx].name,
                              algorithm_results[algo_idx].result)
    /\ gt_idx' = 1
    /\ pc' = "pr_loop"
    /\ UNCHANGED <<inputs, first_run, rankings, insights, ground_truth, algo_idx, detailed_metrics, scored_prs, stat,
                   comparison, log, returned>>

\* `scores.keys()` of a malformed entry raises; evaluate_algorithms has no handler,
\* so the exception leaves it.
CalcRaise ==
    /\ InAlgoLoop
    /\ ~IsEmptyResult(algorithm_results[algo_idx].result)
    /\ ~WellFormed(algorithm_results[algo_idx].result)
    /\ returned' = [kind |-> "exception", value |-> <<>>]
    /\ pc' = "done"
    /\ UNCHANGED <<inputs, first_run, rankings, insights, ground_truth, algo_idx, gt_idx, acc, detailed_metrics,
                   scored_prs, stat, comparison, log>>

InPrLoop == pc = "pr_loop" /\ gt_idx <= Len(ground_truth)

\* Mutant: a request with an empty dict of scores is not skipped.
IsValidRequestAnyList(algo_result, p) == HasPR(algo_result, p)

\* A request of the ground truth is valid for the algorithm when the result has
\* it with a non-empty dict of scores.
IsValidRequest(algo_result, p) == HasPR(algo_result, p) /\ GetPR(algo_result, p).items # <<>>

CurResult == algorithm_results[algo_idx].result

\* `if pr_num not in algo_result: continue` and `if not sorted_recs: continue`
CalcSkipPR ==
    /\ InPrLoop
    /\ ~IsValidRequest(CurResult, ground_truth[gt_idx].pr)
    /\ gt_idx' = gt_idx + 1
    /\ UNCHANGED <<inputs, first_run, rankings, insights, ground_truth, pc, algo_idx, acc, detailed_metrics, scored_prs,
                   stat, comparison, log, returned>>

\* Mutant: a miss at k = 1 is not appended to hit_at_1.
ScoreRequestSkipsMiss(a, algo_result, gt_entry) ==
    LET sorted_recs == SortedRecs(GetPR(algo_result, gt_entry.pr).items)
        actual_reviewers == gt_entry.reviewers
    IN [a EXCEPT !.per_pr_metrics =
                    [AppendItem(@, sorted_recs, actual_reviewers) EXCEPT !.hit_at_1 =
                        IF HitAt(sorted_recs, actual_reviewers, 1) = 0
                        THEN a.per_pr_metrics.hit_at_1 ELSE @],
                 !.hits_at_k = BumpHits(@, sorted_recs, actual_reviewers),
                 !.valid_prs = @ + 1,
                 !.pr_nums = Append(@, gt_entry.pr)]

\* The loop body for a valid request.
ScoreRequest(a, algo_result, gt_entry) ==
    LET sorted_recs == SortedRecs(GetPR(algo_result, gt_entry.pr).items)
        actual_reviewers == gt_entry.reviewers
    IN [a EXCEPT !.per_pr_metrics = AppendItem(@, sorted_recs, actual_reviewers),
                 !.hits_at_k = BumpHits(@, sorted_recs, actual_reviewers),
                 !.valid_prs = @ + 1,
                 !.pr_nums = Append(@, gt_entry.pr)]

CalcScorePR ==
    /\ InPrLoop
    /\ IsValidRequest(CurResult, ground_truth[gt_idx].pr)
    /\ acc' = ScoreRequest(acc, CurResult, ground_truth[gt_idx])
    /\ gt_idx' = gt_idx + 1
    /\ UNCHANGED <<inputs, first_run, rankings, insights, ground_truth, pc, algo_idx, detailed_metrics, scored_prs, stat,
                   comparison, log, returned>>

\* The end of _calculate_algorithm_metrics and `detailed_metrics[algo_name] = metrics`.
CalcFinish ==
    /\ pc = "pr_loop"
    /\ gt_idx > Len(ground_truth)
    /\ detailed_metrics' = Append(detailed_metrics,
            [name |-> acc.name, metrics |-> CompileMetrics(acc, Len(ground_truth))])
    /\ scored_prs' = Append(scored_prs, acc.pr_nums)
    /\ acc' = NoAccumulators
    /\ algo_idx' = algo_idx + 1
    /\ pc' = "algo_loop"
    /\ UNCHANGED <<inputs, first_run, rankings, insights, ground_truth, gt_idx, stat, comparison, log, returned>>

\* `if len(detailed_metrics) > 1:` guards the comparison and the tests.
AlgoLoopEnd ==
    /\ pc = "algo_loop"
    /\ algo_idx > Len(algorithm_results)
    /\ pc' = IF Len(detailed_metrics) > 1 THEN "compare" ELSE "save"
    /\ UNCHANGED <<inputs, first_run, rankings, insights, ground_truth, algo_idx, gt_idx, acc, detailed_metrics,
                   scored_prs, stat, comparison, log, returned>>

\* ---------------------------------------------- _display_comparative_analysis
\* d.get(key, 0)
DictGet(d, key) == IF key \in DOMAIN d THEN d[key] ELSE FZero

\* One row of the precision / recall / F1 table.
TableRow(name, metrics) ==
    [algo |-> name,
     p1 |-> DictGet(metrics.precision_metrics, "precision_at_1"),
     r1 |-> DictGet(metrics.recall_metrics, "recall_at_1"),
     f1 |-> DictGet(metrics.f1_metrics, "f1_at_1"),
     p5 |-> DictGet(metrics.precision_metrics, "precision_at_5"),
     r5 |-> DictGet(metrics.recall_metrics, "recall_at_5"),
     f5 |-> DictGet(metrics.f1_metrics, "f1_at_5"),
     mrr |-> DictGet(metrics.ranking_metrics, "mrr"),
     map |-> DictGet(metrics.ranking_metrics, "map")]

\* Mutant: an algorithm without a valid request gets no row.
ComparisonTableValidOnly(dm) ==
    LET kept == SelectSeq(dm, LAMBDA b : b.metrics.basic_stats.valid_prs > 0)
    IN [i \in DOMAIN kept |-> TableRow(kept[i].name, kept[i].metrics)]

ComparisonTable(dm) == [i \in DOMAIN dm |-> TableRow(dm[i].name, dm[i].metrics)]

\* ------------------------------------------------------- _display_rankings
\* 1 / np.log2(rank + 1) for ranks 1..10, in thousandths: the rankings compare
\* NDCG values as numbers.
Discount == <<1000, 631, 500, 431, 387, 356, 333, 315, 301, 289>>

RECURSIVE DiscountSum(_)
DiscountSum(ranks) ==
    IF ranks = {} THEN 0
    ELSE LET r == CHOOSE q \in ranks : TRUE IN Discount[r] + DiscountSum(ranks \ {r})

\* ndcg = dcg / idcg if idcg > 0 else 0, as a number.
NdcgValue(n) ==
    IF DiscountSum(n.idcg) > 0 THEN Frac(DiscountSum(n.dcg), DiscountSum(n.idcg)) ELSE FZero

\* ranking_metrics = [('MRR', 'ranking_metrics', 'mrr'), ...]
RankingMetricsList ==
    <<[label |-> "MRR", category |-> "ranking_metrics", key |-> "mrr"],
      [label |-> "MAP", category |-> "ranking_metrics", key |-> "map"],
      [label |-> "Precision@5", category |-> "precision_metrics", key |-> "precision_at_5"],
      [label |-> "Recall@5", category |-> "recall_metrics", key |-> "recall_at_5"],
      [label |-> "F1@5", category |-> "f1_metrics", key |-> "f1_at_5"],
      [label |-> "NDCG@10", category |-> "ranking_metrics", key |-> "avg_ndcg"]>>

\* metrics.get(category, {}).get(key, 0); avg_ndcg is the mean of the NDCG values.
RankValue(metrics, m) ==
    LET d == metrics[m.category]
    IN IF m.key \notin DOMAIN d THEN FZero
       ELSE IF m.key = "avg_ndcg"
            THEN Mean([i \in DOMAIN d[m.key].mean_of |-> NdcgValue(d[m.key].mean_of[i])])
            ELSE d[m.key]

\* Mutant: an algorithm is placed before the algorithms of equal value.
RankInsertBeforeTies(ranked, x) ==
    LET c == Cardinality({i \in DOMAIN ranked : FLess(x.value, ranked[i].value)})
    IN SubSeq(ranked, 1, c) \o <<x>> \o SubSeq(ranked, c + 1, Len(ranked))

\* sorted(..., reverse=True) is stable: an algorithm is placed after the
\* algorithms of greater or equal value.
RankInsert(ranked, x) ==
    LET c == Cardinality({i \in DOMAIN ranked : FLeq(x.value, ranked[i].value)})
    IN SubSeq(ranked, 1, c) \o <<x>> \o SubSeq(ranked, c + 1, Len(ranked))

RECURSIVE RankUpTo(_, _, _)
RankUpTo(dm, m, n) ==
    IF n = 0 THEN <<>>
    ELSE RankInsert(RankUpTo(dm, m, n - 1),
                    [algo |-> dm[n].name, value |-> RankValue(dm[n].metrics, m)])

\* One ranking: the algorithms and the values printed, in rank order.
RankedBy(dm, m) == [label |-> m.label, rows |-> RankUpTo(dm, m, Len(dm))]

Rankings(dm) == [k \in DOMAIN RankingMetricsList |-> RankedBy(dm, RankingMetricsList[k])]

\* ------------------------------------------- _display_performance_insights
\* x[1][category].get(key, 0) of the algorithm at position i.
InsightValue(dm, i, category, key) == DictGet(dm[i].metrics[category], key)

\* Mutant: a later algorithm of equal value replaces the best one.
BestUpToLastOnTies(dm, category, key, n) ==
    CHOOSE i \in 1..n :
       /\ \A j \in 1..n : FLeq(InsightValue(dm, j, category, key), InsightValue(dm, i, category, key))
       /\ \A j \in (i + 1)..n :
             FLess(InsightValue(dm, j, category, key), InsightValue(dm, i, category, key))

\* max(detailed_metrics.items(), key=...): a later item replaces the best one
\* only when its key is strictly greater.
RECURSIVE BestUpTo(_, _, _, _)
BestUpTo(dm, category, key, n) ==
    IF n = 1 THEN 1
    ELSE LET best == BestUpTo(dm, category, key, n - 1)
         IN IF FLess(InsightValue(dm, best, category, key), InsightValue(dm, n, category, key))
            THEN n ELSE best

BestBy(dm, category, key) == dm[BestUpTo(dm, category, key, Len(dm))].name

\* The list stable_algos: (name, IQR of the reciprocal ranks) of every
\* algorithm whose stability_metrics has the record 'mrr'.
RECURSIVE StableUpTo(_, _)
StableUpTo(dm, n) ==
    IF n = 0 THEN <<>>
    ELSE LET rest == StableUpTo(dm, n - 1)
             stability == dm[n].metrics.stability_metrics
         IN IF "mrr" \in DOMAIN stability
            THEN Append(rest, [name |-> dm[n].name, iqr |-> stability["mrr"].iqr])
            ELSE rest

StableAlgos(dm) == StableUpTo(dm, Len(dm))

\* min(stable_algos, key=lambda x: x[1])
RECURSIVE MinIqrUpTo(_, _)
MinIqrUpTo(stable_algos, n) ==
    IF n = 1 THEN 1
    ELSE LET least == MinIqrUpTo(stable_algos, n - 1)
         IN IF FLess(stable_algos[n].iqr, stable_algos[least].iqr) THEN n ELSE least

\* The line 'Most Stable' is printed only when stable_algos is not empty.
MostStable(dm) ==
    LET stable_algos == StableAlgos(dm)
    IN IF stable_algos # <<>>
       THEN <<stable_algos[MinIqrUpTo(stable_algos, Len(stable_algos))]>>
       ELSE <<>>

Insights(dm) ==
    [best_mrr |-> BestBy(dm, "ranking_metrics", "mrr"),
     best_map |-> BestBy(dm, "ranking_metrics", "map"),
     best_f1_5 |-> BestBy(dm, "f1_metrics", "f1_at_5"),
     most_stable |-> MostStable(dm)]

\* _display_comparative_analysis: the tables, the rankings and the insights.
Compare ==
    /\ pc = "compare"
    /\ comparison' = ComparisonTable(detailed_metrics)
    /\ rankings' = Rankings(detailed_metrics)
    /\ insights' = Insights(detailed_metrics)
    /\ log' = Append(log, "comparison")
    /\ pc' = "stat"
    /\ UNCHANGED <<inputs, first_run, ground_truth, algo_idx, gt_idx, acc, detailed_metrics,
                   scored_prs, stat, returned>>

\* ----------------------------------------------- _perform_statistical_testing
\* detailed_metrics[algo_name]['per_pr_scores']['mrr_scores']
MrrScores(dm, i) == dm[i].metrics.per_pr_scores["mrr_scores"]

\* Mutant: an empty list does not take part in the minimum.
RECURSIVE MinLenUpToNonEmpty(_, _)
MinLenUpToNonEmpty(dm, n) ==
    IF n = 0 THEN Inf
    ELSE IF MrrScores(dm, n) = <<>> THEN MinLenUpToNonEmpty(dm, n - 1)
         ELSE Min(MinLenUpToNonEmpty(dm, n - 1), Len(MrrScores(dm, n)))

RECURSIVE MinLenUpTo(_, _)
MinLenUpTo(dm, n) ==
    IF n = 0 THEN Inf ELSE Min(MinLenUpTo(dm, n - 1), Len(MrrScores(dm, n)))

\* min_length after the loop over the algorithms.
MinLength(dm) == MinLenUpTo(dm, Len(dm))

\* per_pr_scores[algo_name][:min_length]
Aligned(dm, i, min_length) == SubSeq(MrrScores(dm, i), 1, Min(min_length, Len(MrrScores(dm, i))))

\* Mutant: the threshold is exclusive, `min_length > 10`.
EnoughDataStrict(n_scores, min_length) == n_scores >= 2 /\ min_length > MIN_SAMPLES

\* `len(aligned_scores) >= 2 and min_length >= 10`
EnoughData(n_scores, min_length) == n_scores >= 2 /\ min_length >= MIN_SAMPLES

\* `from scipy import stats` fails: ImportError is caught.
StatImportError ==
    /\ pc = "stat"
    /\ log' = Append(log, "scipy_not_installed")
    /\ pc' = "save"
    /\ UNCHANGED <<inputs, first_run, rankings, insights, ground_truth, algo_idx, gt_idx, acc, detailed_metrics,
                   scored_prs, stat, comparison, returned>>

\* Fewer than two score lists, or too short a common length: a notice, no test.
StatInsufficient ==
    /\ pc = "stat"
    /\ ~EnoughData(Len(detailed_metrics), MinLength(detailed_metrics))
    /\ stat' = [stat EXCEPT !.min_length = MinLength(detailed_metrics),
                            !.n_scores = Len(detailed_metrics)]
    /\ log' = Append(log, IF Len(detailed_metrics) < 2 THEN "need_two_algorithms"
                          ELSE "not_enough_data")
    /\ pc' = "save"
    /\ UNCHANGED <<inputs, first_run, rankings, insights, ground_truth, algo_idx, gt_idx, acc, detailed_metrics,
                   scored_prs, comparison, returned>>

\* Mutant: the lists are cut to the common length inside the bundles.
StatAlignedInPlace ==
    /\ pc = "stat"
    /\ EnoughData(Len(detailed_metrics), MinLength(detailed_metrics))
    /\ stat' = [stat EXCEPT !.min_length = MinLength(detailed_metrics),
                            !.n_scores = Len(detailed_metrics)]
    /\ detailed_metrics' =
          [i \in DOMAIN detailed_metrics |->
              [detailed_metrics[i] EXCEPT !.metrics.per_pr_scores["mrr_scores"] =
                  Aligned(detailed_metrics, i, MinLength(detailed_metrics))]]
    /\ pc' = "friedman"
    /\ UNCHANGED <<inputs, first_run, rankings, insights, ground_truth, algo_idx, gt_idx, acc,
                   scored_prs, comparison, log, returned>>

\* aligned_scores holds slices, which are copies: the bundles keep their lists.
StatAligned ==
    /\ pc = "stat"
    /\ EnoughData(Len(detailed_metrics), MinLength(detailed_metrics))
    /\ stat' = [stat EXCEPT !.min_length = MinLength(detailed_metrics),
                            !.n_scores = Len(detailed_metrics)]
    /\ pc' = "friedman"
    /\ UNCHANGED <<inputs, first_run, rankings, insights, ground_truth, algo_idx, gt_idx, acc, detailed_metrics,
                   scored_prs, comparison, log, returned>>

\* All the aligned lists agree at every position: every rank is tied.
AllTied(dm, min_length) ==
    \A i \in DOMAIN dm : Aligned(dm, i, min_length) = Aligned(dm, 1, min_length)

\* friedmanchisquare(*aligned_scores): ValueError for fewer than three samples;
\* otherwise a p-value below 0.05, a p-value of at least 0.05, or nan when
\* every rank is tied.
FriedmanOutcomes(dm, min_length) ==
    IF Len(dm) < FRIEDMAN_MIN_GROUPS THEN {"raise"}
    ELSE IF AllTied(dm, min_length) THEN {"nan"}
    ELSE {"p_lt_05", "p_ge_05"}

\* stats.wilcoxon(scores1, scores2): when every difference is zero the library
\* raises ValueError or returns nan, depending on its version; otherwise a
\* p-value on either side of 0.05.
WilcoxonOutcomes(scores1, scores2) ==
    IF scores1 = scores2 THEN {"raise", "nan"} ELSE {"p_lt_05", "p_ge_05"}

\* Mutant: no handler catches what friedmanchisquare raises.
FriedmanPropagates ==
    /\ pc = "friedman"
    /\ \E o \in FriedmanOutcomes(detailed_metrics, stat.min_length) :
          IF o = "raise"
          THEN /\ returned' = [kind |-> "exception", value |-> <<>>]
               /\ stat' = [stat EXCEPT !.friedman = "raised"]
               /\ pc' = "done"
               /\ log' = log
          ELSE /\ log' = Append(log, "friedman")
               /\ stat' = [stat EXCEPT !.friedman = o, !.i = 1, !.j = 2]
               /\ pc' = "wilcoxon"
               /\ returned' = returned
    /\ UNCHANGED <<inputs, first_run, rankings, insights, ground_truth, algo_idx, gt_idx, acc,
                   detailed_metrics, scored_prs, comparison>>

\* `except Exception as e`: the handler that ends the whole function.
Friedman ==
    /\ pc = "friedman"
    /\ \E o \in FriedmanOutcomes(detailed_metrics, stat.min_length) :
          IF o = "raise"
          THEN /\ log' = Append(log, "error_in_statistical_testing")
               /\ stat' = [stat EXCEPT !.friedman = "raised"]
               /\ pc' = "save"
          ELSE /\ log' = Append(log, "friedman")
               /\ stat' = [stat EXCEPT !.friedman = o, !.i = 1, !.j = 2]
               /\ pc' = "wilcoxon"
    /\ UNCHANGED <<inputs, first_run, rankings, insights, ground_truth, algo_idx, gt_idx, acc, detailed_metrics,
                   scored_prs, comparison, returned>>

\* The next (i, j) of `for i in range(n): for j in range(i+1, n)`, 1-indexed;
\* i = n when the loops are over.
NextPair(i, j, n) == IF j < n THEN <<i, j + 1>> ELSE <<i + 1, i + 2>>

Wilcoxon ==
    /\ pc = "wilcoxon"
    /\ stat.j <= Len(detailed_metrics)
    /\ \E o \in WilcoxonOutcomes(Aligned(detailed_metrics, stat.i, stat.min_length),
                                 Aligned(detailed_metrics, stat.j, stat.min_length)) :
          IF o = "raise"
          THEN /\ log' = Append(log, "error_in_statistical_testing")
               /\ stat' = stat
               /\ pc' = "save"
          ELSE /\ log' = Append(log, "wilcoxon")
               /\ stat' = [stat EXCEPT
                    !.pairs = Append(@, [algo1 |-> stat.i, algo2 |-> stat.j, p |-> o,
                                         sig |-> o = "p_lt_05"]),
                    !.i = NextPair(stat.i, stat.j, Len(detailed_metrics))[1],
                    !.j = NextPair(stat.i, stat.j, Len(detailed_metrics))[2]]
               /\ pc' = "wilcoxon"
    /\ UNCHANGED <<inputs, first_run, rankings, insights, ground_truth, algo_idx, gt_idx, acc, detailed_metrics,
                   scored_prs, comparison, returned>>

WilcoxonEnd ==
    /\ pc = "wilcoxon"
    /\ stat.j > Len(detailed_metrics)
    /\ pc' = "save"
    /\ UNCHANGED <<inputs, first_run, rankings, insights, ground_truth, algo_idx, gt_idx, acc, detailed_metrics,
                   scored_prs, stat, comparison, log, returned>>

\* ---------------------------------------------------- _save_evaluation_results
\* json.dump of the converted metrics.
SaveJson ==
    /\ pc = "save"
    /\ log' = Append(log, "json_written")
    /\ pc' = "save_csv"
    /\ UNCHANGED <<inputs, first_run, rankings, insights, ground_truth, algo_idx, gt_idx, acc, detailed_metrics,
                   scored_prs, stat, comparison, returned>>

\* Mutant: the ImportError of pandas is not caught.
SaveCsvPropagates ==
    /\ pc = "save_csv"
    /\ \E pandas \in BOOLEAN :
          IF pandas
          THEN /\ log' = Append(log, "csv_written")
               /\ pc' = "return"
               /\ returned' = returned
          ELSE /\ log' = log
               /\ pc' = "done"
               /\ returned' = [kind |-> "exception", value |-> <<>>]
    /\ UNCHANGED <<inputs, first_run, rankings, insights, ground_truth, algo_idx, gt_idx, acc,
                   detailed_metrics, scored_prs, stat, comparison>>

\* `import pandas` succeeds and the summary is written, or ImportError is caught.
SaveCsv ==
    /\ pc = "save_csv"
    /\ \E pandas \in BOOLEAN :
          log' = Append(log, IF pandas THEN "csv_written" ELSE "csv_skipped")
    /\ pc' = "return"
    /\ UNCHANGED <<inputs, first_run, rankings, insights, ground_truth, algo_idx, gt_idx, acc, detailed_metrics,
                   scored_prs, stat, comparison, returned>>

\* `return detailed_metrics`
Return ==
    /\ pc = "return"
    /\ returned' = [kind |-> "value", value |-> detailed_metrics]
    /\ pc' = "done"
    /\ UNCHANGED <<inputs, first_run, rankings, insights, ground_truth, algo_idx, gt_idx, acc, detailed_metrics,
                   scored_prs, stat, comparison, log>>

Next ==
    \/ Construct
    \/ EvaluateEmpty
    \/ EvaluateBegin
    \/ SkipEmptyAlgo
    \/ CalcBegin
    \/ CalcRaise
    \/ CalcSkipPR
    \/ CalcScorePR
    \/ CalcFinish
    \/ AlgoLoopEnd
    \/ Compare
    \/ StatImportError
    \/ StatInsufficient
    \/ StatAligned
    \/ Friedman
    \/ Wilcoxon
    \/ WilcoxonEnd
    \/ SaveJson
    \/ SaveCsv
    \/ Return

Spec == Init /\ [][Next]_vars

\* ------------------------------------------- the engine's parts on their own
\* _build_ground_truth on any request list and any participation records:
\* request numbers may repeat, records may repeat or name other requests.
MaxReviews == 3

SeqsUpTo(S, n) == UNION {[1..k -> S] : k \in 0..n}

InitGT ==
    /\ pull_requests_list \in SeqsUpTo(1..MaxPRs, MaxPRs)
    /\ reviews_list \in SeqsUpTo({Review(p, d) : p \in 1..MaxPRs, d \in {"alice", "bob"}},
                                 MaxReviews)
    /\ algorithm_results = <<>>
    /\ ground_truth = <<>>
    /\ pc = "new"
    /\ algo_idx = 0
    /\ gt_idx = 0
    /\ acc = NoAccumulators
    /\ detailed_metrics = <<>>
    /\ scored_prs = <<>>
    /\ stat = NoStat
    /\ comparison = <<>>
    /\ log = <<>>
    /\ returned = NotReturned
    /\ rankings = <<>>
    /\ insights = NoInsights
    /\ first_run = NoRun

SpecGT == InitGT /\ [][Construct]_vars

\* _calculate_algorithm_metrics on one request and one ranked list of up to
\* MaxListLen candidates, of which up to MaxActual are actual reviewers.
MaxListLen == 11
MaxActual == 2

Cand(i) == Key("dev", i)

RECURSIVE SetToSeq(_)
SetToSeq(S) ==
    IF S = {} THEN <<>>
    ELSE LET x == CHOOSE y \in S : TRUE IN <<x>> \o SetToSeq(S \ {x})

\* The scores the algorithm gave, in insertion order: falling, all equal, rising.
ScoreOf(pattern, i, len) ==
    CASE pattern = "falling" -> len + 1 - i
      [] pattern = "equal" -> 1
      [] OTHER -> i

\* One request reviewed by alice and bob; the algorithm scores carol 0.9,
\* alice 0.8 and bob 0.7 (scores in tenths), in either dict order.
ExampleItems ==
    {<< <<"carol", 9>>, <<"alice", 8>>, <<"bob", 7>> >>,
     << <<"bob", 7>>, <<"alice", 8>>, <<"carol", 9>> >>}

ExampleInputs ==
    {Input(<<1>>, <<Review(1, "alice"), Review(1, "bob")>>,
           <<[name |-> AlgoNames[1], result |-> <<Entry(1, items)>>]>>) :
        items \in ExampleItems}

ItemInputs ==
    ExampleInputs \cup
    {Input(<<1>>,
           [i \in 1..Cardinality(actual) |-> Review(1, SetToSeq(actual)[i])],
           <<[name |-> AlgoNames[1],
              result |-> <<Entry(1, [i \in 1..len |-> <<Cand(i), ScoreOf(pattern, i, len)>>])>>]>>) :
        actual \in {A \in SUBSET {Cand(i) : i \in 1..(MaxListLen + 1)} :
                       Cardinality(A) \in 1..MaxActual},
        len \in 0..MaxListLen,
        pattern \in {"falling", "equal", "rising"}}

\* Two requests reviewed by alice, each with a list of MaxListLen candidates in
\* which alice is at rank 1, 2, 4, 6 or MaxListLen, or is not recommended (0).
PairList(pos) ==
    [i \in 1..MaxListLen |-> <<IF i = pos THEN "alice" ELSE Cand(i), MaxListLen + 1 - i>>]

PairInputs ==
    {Input(<<1, 2>>, <<Review(1, "alice"), Review(2, "alice")>>,
           <<[name |-> AlgoNames[1],
              result |-> <<Entry(1, PairList(pos1)), Entry(2, PairList(pos2))>>]>>) :
        pos1 \in {0, 1, 2, 4, 6, MaxListLen}, pos2 \in {0, 1, 2, 4, 6, MaxListLen}}

InitItem ==
    /\ \E inp \in ItemInputs \cup PairInputs :
          /\ pull_requests_list = inp.prs
          /\ reviews_list = inp.reviews
          /\ algorithm_results = inp.algos
    /\ ground_truth = <<>>
    /\ pc = "new"
    /\ algo_idx = 0
    /\ gt_idx = 0
    /\ acc = NoAccumulators
    /\ detailed_metrics = <<>>
    /\ scored_prs = <<>>
    /\ stat = NoStat
    /\ comparison = <<>>
    /\ log = <<>>
    /\ returned = NotReturned
    /\ rankings = <<>>
    /\ insights = NoInsights
    /\ first_run = NoRun

NextItem ==
    \/ Construct
    \/ EvaluateBegin
    \/ CalcBegin
    \/ CalcSkipPR
    \/ CalcScorePR
    \/ CalcFinish

SpecItem == InitItem /\ [][NextItem]_vars

\* evaluate_algorithms up to the end of _calculate_algorithm_metrics, on the
\* inputs of the small family that hold one algorithm: requests with and
\* without reviewers, entries that are absent, empty, ranked or malformed; and
\* on the first algorithm of the long family.
CalcInputs ==
    {inp \in SmallInputs : Len(inp.algos) = 1}
        \cup {Input(inp.prs, inp.reviews, SubSeq(inp.algos, 1, 1)) : inp \in LongInputs}

InitCalc ==
    /\ \E inp \in CalcInputs :
          /\ pull_requests_list = inp.prs
          /\ reviews_list = inp.reviews
          /\ algorithm_results = inp.algos
    /\ ground_truth = <<>>
    /\ pc = "new"
    /\ algo_idx = 0
    /\ gt_idx = 0
    /\ acc = NoAccumulators
    /\ detailed_metrics = <<>>
    /\ scored_prs = <<>>
    /\ stat = NoStat
    /\ comparison = <<>>
    /\ log = <<>>
    /\ returned = NotReturned
    /\ rankings = <<>>
    /\ insights = NoInsights
    /\ first_run = NoRun

NextCalc ==
    \/ Construct
    \/ EvaluateEmpty
    \/ EvaluateBegin
    \/ SkipEmptyAlgo
    \/ CalcBegin
    \/ CalcRaise
    \/ CalcSkipPR
    \/ CalcScorePR
    \/ CalcFinish

SpecCalc == InitCalc /\ [][NextCalc]_vars

\* _calculate_algorithm_metrics as a function of its inputs.
RECURSIVE CalcUpTo(_, _, _, _)
CalcUpTo(algo_name, algo_result, gt, n) ==
    IF n = 0 THEN NewAccumulators(algo_name, algo_result)
    ELSE LET a == CalcUpTo(algo_name, algo_result, gt, n - 1)
         IN IF IsValidRequest(algo_result, gt[n].pr)
            THEN ScoreRequest(a, algo_result, gt[n])
            ELSE a

\* _perform_statistical_testing called on its own, with the bundles of the
\* first m algorithms of a long input.
\* A result whose only request is not among the n requests of the manager.
OutsideResult(n) == <<Entry(n + 1, << <<"alice", 2>> >>)>>

\* A long input of two algorithms followed by a third one whose result meets no
\* request of the ground truth.
WithOutsider(inp) ==
    Input(inp.prs, inp.reviews,
          Append(inp.algos, [name |-> AlgoNames[3], result |-> OutsideResult(Len(inp.prs))]))

TesterInputs ==
    {[inp |-> inp, m |-> Len(inp.algos)] : inp \in LongInputs}
        \cup {[inp |-> inp, m |-> m] : inp \in {x \in LongInputs : Len(x.algos) = 2}, m \in 0..1}
        \cup {[inp |-> WithOutsider(inp), m |-> 3] : inp \in {x \in LongInputs : Len(x.algos) = 2}}

\* The bundle of one algorithm and the requests it was built from.
TesterBundle(algo, gt) ==
    LET a == CalcUpTo(algo.name, algo.result, gt, Len(gt))
    IN [name |-> algo.name, metrics |-> CompileMetrics(a, Len(gt)), prs |-> a.pr_nums]

RECURSIVE TesterBundles(_, _, _)
TesterBundles(algos, gt, n) ==
    IF n = 0 THEN <<>>
    ELSE Append(TesterBundles(algos, gt, n - 1), TesterBundle(algos[n], gt))

InitTester ==
    /\ \E t \in TesterInputs :
          LET gt == BuildGroundTruth(t.inp.prs, t.inp.reviews)
              algos == SubSeq(t.inp.algos, 1, Min(t.m, Len(t.inp.algos)))
          IN \E bundles \in {TesterBundles(algos, gt, Len(algos))} :
                /\ pull_requests_list = t.inp.prs
                /\ reviews_list = t.inp.reviews
                /\ algorithm_results = algos
                /\ ground_truth = gt
                /\ detailed_metrics = [i \in DOMAIN algos |->
                       [name |-> bundles[i].name, metrics |-> bundles[i].metrics]]
                /\ scored_prs = [i \in DOMAIN algos |-> bundles[i].prs]
                /\ algo_idx = Len(algos) + 1
                /\ gt_idx = Len(gt) + 1
    /\ pc = "stat"
    /\ acc = NoAccumulators
    /\ stat = NoStat
    /\ comparison = <<>>
    /\ log = <<>>
    /\ returned = NotReturned
    /\ rankings = <<>>
    /\ insights = NoInsights
    /\ first_run = NoRun

NextTester ==
    \/ StatImportError
    \/ StatInsufficient
    \/ StatAligned
    \/ Friedman
    \/ Wilcoxon
    \/ WilcoxonEnd

SpecTester == InitTester /\ [][NextTester]_vars

\* evaluate_algorithms called a second time with the same argument, on the same
\* engine or on a new one built from the same manager; the caller keeps what
\* the first call returned.
OneRequestAlgos ==
    LET R == {ResultOf([p \in 1..1 |-> c], 1) : c \in RecChoices(1)}
    IN {<<>>}
         \cup {<<[name |-> AlgoNames[1], result |-> r]>> : r \in R}
         \cup {<<[name |-> AlgoNames[1], result |-> r1],
                 [name |-> AlgoNames[2], result |-> r2]>> : r1 \in R, r2 \in R}

TwiceInputs ==
    {Input(<<1>>, ReviewsOf(<<rc>>, 1), a) : rc \in ReviewerChoices, a \in OneRequestAlgos}
        \cup {inp \in LongInputs : Len(inp.prs) = MIN_SAMPLES}

InitTwice ==
    /\ \E inp \in TwiceInputs :
          /\ pull_requests_list = inp.prs
          /\ reviews_list = inp.reviews
          /\ algorithm_results = inp.algos
    /\ ground_truth = <<>>
    /\ pc = "new"
    /\ algo_idx = 0
    /\ gt_idx = 0
    /\ acc = NoAccumulators
    /\ detailed_metrics = <<>>
    /\ scored_prs = <<>>
    /\ stat = NoStat
    /\ comparison = <<>>
    /\ log = <<>>
    /\ returned = NotReturned
    /\ rankings = <<>>
    /\ insights = NoInsights
    /\ first_run = NoRun

\* The locals of the finished call are gone; self.ground_truth stays.
RerunSameEngine ==
    /\ pc = "done"
    /\ first_run = NoRun
    /\ first_run' = [kind |-> returned.kind, value |-> returned.value]
    /\ pc' = "ready"
    /\ algo_idx' = 0
    /\ gt_idx' = 0
    /\ acc' = NoAccumulators
    /\ detailed_metrics' = <<>>
    /\ scored_prs' = <<>>
    /\ stat' = NoStat
    /\ comparison' = <<>>
    /\ rankings' = <<>>
    /\ insights' = NoInsights
    /\ log' = <<>>
    /\ returned' = NotReturned
    /\ UNCHANGED <<inputs, ground_truth>>

\* run_advanced_evaluation builds a new AdvancedEvaluation for every call.
RerunNewEngine ==
    /\ pc = "done"
    /\ first_run = NoRun
    /\ first_run' = [kind |-> returned.kind, value |-> returned.value]
    /\ pc' = "new"
    /\ ground_truth' = <<>>
    /\ algo_idx' = 0
    /\ gt_idx' = 0
    /\ acc' = NoAccumulators
    /\ detailed_metrics' = <<>>
    /\ scored_prs' = <<>>
    /\ stat' = NoStat
    /\ comparison' = <<>>
    /\ rankings' = <<>>
    /\ insights' = NoInsights
    /\ log' = <<>>
    /\ returned' = NotReturned
    /\ UNCHANGED inputs

NextTwice ==
    \/ Next
    \/ RerunSameEngine
    \/ RerunNewEngine

SpecTwice == InitTwice /\ [][NextTwice]_vars

\* ------------------------------------------------------------------ claims
PostStat == {"save", "save_csv", "return", "done"}

\* The first position of request p in the request list.
FirstIndex(prs, p) == CHOOSE i \in DOMAIN prs : prs[i] = p /\ \A j \in 1..(i - 1) : prs[j] # p

\* C9: after construction, the ground truth maps each request to exactly the
\* distinct reviewers of the participation records carrying its number; a
\* request without such a record has no entry, so every entry is a non-empty
\* set; the keys are distinct and follow the order of the request list.
C9_GroundTruthBuilt ==
    pc # "new" =>
       /\ \A i \in DOMAIN ground_truth :
             /\ ground_truth[i].pr \in Range(pull_requests_list)
             /\ ground_truth[i].reviewers # {}
             /\ ground_truth[i].reviewers =
                   {r.reviewer_username :
                       r \in {x \in Range(reviews_list) : x.pull_number = ground_truth[i].pr}}
       /\ \A p \in Range(pull_requests_list) :
             (\E i \in DOMAIN ground_truth : ground_truth[i].pr = p)
                <=> (\E r \in Range(reviews_list) : r.pull_number = p)
       /\ \A i, j \in DOMAIN ground_truth :
             i < j => FirstIndex(pull_requests_list, ground_truth[i].pr)
                         < FirstIndex(pull_requests_list, ground_truth[j].pr)

\* A request list in descending order, a repeated record, a request with two
\* reviewers and a request with none.
C9_Witness ==
    /\ pc = "ready"
    /\ pull_requests_list = <<2, 1>>
    /\ reviews_list = <<Review(1, "alice"), Review(1, "bob"), Review(1, "alice")>>
    /\ ground_truth = <<[pr |-> 1, reviewers |-> {"alice", "bob"}]>>

\* The per-item lists of every bundle under construction or finished.
AllPerPr ==
    {detailed_metrics[i].metrics.per_pr_scores : i \in DOMAIN detailed_metrics}
        \cup (IF acc = NoAccumulators THEN {} ELSE {acc.per_pr_metrics})

\* C10: for every valid request, recall@1 <= recall@3 <= recall@5 <= recall@10.
C10_RecallMonotone ==
    \A m \in AllPerPr : \A i \in DOMAIN m["recall_at_1"] :
       /\ FLeq(m["recall_at_1"][i], m["recall_at_3"][i])
       /\ FLeq(m["recall_at_3"][i], m["recall_at_5"][i])
       /\ FLeq(m["recall_at_5"][i], m["recall_at_10"][i])

\* A request whose recall grows strictly from k = 3 to 5 and from 5 to 10.
C10_Witness ==
    \E i \in DOMAIN detailed_metrics :
       LET m == detailed_metrics[i].metrics.per_pr_scores
       IN /\ Len(m["recall_at_1"]) = 1
          /\ m["recall_at_1"][1] = FZero
          /\ FLess(m["recall_at_3"][1], m["recall_at_5"][1])
          /\ FLess(m["recall_at_5"][1], m["recall_at_10"][1])

\* The bundles named `name` in a bundle set.
BundlesNamed(dm, name) == {i \in DOMAIN dm : dm[i].name = name}

Mentions(e) == \E i \in DOMAIN log : log[i] = e

\* C8: with no algorithm results or no ground truth, evaluate_algorithms returns
\* an empty bundle set: nothing is raised, computed, compared, tested or exported.
C8_EmptyInputReturnsEmpty ==
    (pc \notin {"new", "ready"} /\ (algorithm_results = <<>> \/ ground_truth = <<>>)) =>
       /\ pc = "done"
       /\ returned = [kind |-> "value", value |-> <<>>]
       /\ detailed_metrics = <<>>
       /\ acc = NoAccumulators
       /\ comparison = <<>>
       /\ stat = NoStat
       /\ \A i \in DOMAIN log : log[i] \in {"no_algorithm_results", "no_ground_truth"}

\* Algorithm results were supplied but no request has a reviewer.
C8_Witness ==
    /\ pc = "done"
    /\ pull_requests_list # <<>>
    /\ ground_truth = <<>>
    /\ Len(algorithm_results) = 2
    /\ returned = [kind |-> "value", value |-> <<>>]

\* Algorithm i produced a well-formed, non-empty result none of whose requests is
\* a request of the ground truth with a non-empty dict of scores.
NoValidOverlap(i) ==
    LET r == algorithm_results[i].result
    IN /\ r # <<>>
       /\ \A e \in Range(r) : e.ok
       /\ \A e \in Range(r), g \in Range(ground_truth) : e.pr = g.pr => e.items = <<>>

HasNoAggregates(metrics) ==
    /\ metrics.basic_stats.valid_prs = 0
    /\ metrics.basic_stats.coverage = FZero
    /\ metrics.precision_metrics = <<>>
    /\ metrics.recall_metrics = <<>>
    /\ metrics.f1_metrics = <<>>
    /\ metrics.ranking_metrics = <<>>
    /\ metrics.other_metrics = <<>>

Compared == pc \in {"stat", "friedman", "wilcoxon"} \cup PostStat /\ Len(detailed_metrics) > 1

NonEmptyNames ==
    LET kept == SelectSeq(algorithm_results, LAMBDA a : a.result # <<>>)
    IN [i \in DOMAIN kept |-> kept[i].name]

\* C6 as stated: an algorithm with an empty result has, in the returned set, a
\* bundle with valid_prs = 0 and an empty ranking-metrics map.
C6_EmptyResultHasBundle ==
    (pc = "done" /\ returned.kind = "value" /\ ground_truth # <<>>) =>
       \A i \in DOMAIN algorithm_results :
          algorithm_results[i].result = <<>> =>
             \E j \in BundlesNamed(returned.value, algorithm_results[i].name) :
                /\ returned.value[j].metrics.basic_stats.valid_prs = 0
                /\ returned.value[j].metrics.ranking_metrics = <<>>

\* C6 amended: an algorithm with an empty result is skipped.  It never has a
\* bundle, and the returned set holds the algorithms with a non-empty result,
\* one bundle each, in dict order.
C6_EmptyResultSkipped ==
    /\ \A i \in DOMAIN algorithm_results :
          algorithm_results[i].result = <<>> =>
             BundlesNamed(detailed_metrics, algorithm_results[i].name) = {}
    /\ (pc = "done" /\ returned.kind = "value" /\ ground_truth # <<>>) =>
          [j \in DOMAIN returned.value |-> returned.value[j].name] = NonEmptyNames

\* One algorithm has an empty result, the other is returned with its bundle.
C6_Witness ==
    /\ pc = "done"
    /\ returned.kind = "value"
    /\ ground_truth # <<>>
    /\ Len(returned.value) = 1
    /\ \E i \in DOMAIN algorithm_results : algorithm_results[i].result = <<>>
    /\ Mentions("no_results_from")

\* The bundles whose reciprocal-rank list is shorter than the threshold.
ShortOf(dm) == {i \in DOMAIN dm : Len(dm[i].metrics.per_pr_scores["mrr_scores"]) < MIN_SAMPLES}

\* C5: _perform_statistical_testing, the library being present, runs no test,
\* raises nothing and gives one notice when fewer than 2 algorithms supply a
\* reciprocal-rank list or the shortest list has fewer than 10 elements; with
\* 2 or more lists of 10 or more elements each the Friedman test is called.
C5_InsufficientDataSkipped ==
    /\ pc \in {"friedman", "wilcoxon"} =>
          Len(detailed_metrics) >= 2 /\ ShortOf(detailed_metrics) = {}
    /\ (pc = "save" /\ ~Mentions("scipy_not_installed")) =>
          IF Len(detailed_metrics) < 2 \/ ShortOf(detailed_metrics) # {}
          THEN /\ stat.friedman = "not_run"
               /\ stat.pairs = <<>>
               /\ returned.kind # "exception"
               /\ log \in {<<"need_two_algorithms">>, <<"not_enough_data">>}
          ELSE stat.friedman # "not_run"

\* Two algorithms, the shortest list one element short of the threshold.
C5_Witness ==
    /\ pc = "save"
    /\ Len(detailed_metrics) = 2
    /\ Len(detailed_metrics[1].metrics.per_pr_scores["mrr_scores"]) = MIN_SAMPLES
    /\ Len(detailed_metrics[2].metrics.per_pr_scores["mrr_scores"]) = MIN_SAMPLES - 1
    /\ log = <<"not_enough_data">>
    /\ stat.friedman = "not_run"

\* C4 as stated: with exactly two algorithms of 10 samples each and the library
\* present, the Friedman test yields a p-value and the pair is tested.
C4_TwoAlgorithmsAreTested ==
    (/\ pc \in PostStat
     /\ Len(detailed_metrics) = 2
     /\ \A i \in DOMAIN detailed_metrics :
           Len(detailed_metrics[i].metrics.per_pr_scores["mrr_scores"]) = MIN_SAMPLES
     /\ ~Mentions("scipy_not_installed")) =>
       /\ stat.friedman \in {"p_lt_05", "p_ge_05"}
       /\ \E k \in DOMAIN stat.pairs : stat.pairs[k].algo1 = 1 /\ stat.pairs[k].algo2 = 2

\* C3 as stated: once the pairwise phase has begun, every unordered pair has been
\* tested and reported, except a pair whose own test fails (identical lists).
C3_OtherPairsStillTested ==
    (pc \in PostStat /\ stat.friedman \in {"p_lt_05", "p_ge_05", "nan"}) =>
       \A i, j \in DOMAIN detailed_metrics :
          i < j =>
             \/ \E k \in DOMAIN stat.pairs : stat.pairs[k].algo1 = i /\ stat.pairs[k].algo2 = j
             \/ Aligned(detailed_metrics, i, stat.min_length)
                   = Aligned(detailed_metrics, j, stat.min_length)

\* Some algorithm's metric computation fails: its result holds a malformed entry.
SomeComputationFails ==
    \E i \in DOMAIN algorithm_results :
       \E e \in Range(algorithm_results[i].result) : ~e.ok

\* C2 as stated: when one algorithm's computation fails, evaluate_algorithms
\* still returns; the returned set holds a bundle for every other algorithm with
\* a non-empty result and none for the failed one, and the export was made.
C2_FailureIsolated ==
    (pc = "done" /\ ground_truth # <<>> /\ SomeComputationFails) =>
       /\ returned.kind = "value"
       /\ \A i \in DOMAIN algorithm_results :
             LET r == algorithm_results[i].result
             IN IF \A e \in Range(r) : e.ok
                THEN r # <<>> => BundlesNamed(returned.value, algorithm_results[i].name) # {}
                ELSE BundlesNamed(returned.value, algorithm_results[i].name) = {}
       /\ Mentions("json_written")

\* C1 as stated: when the tests run, position k of every algorithm's aligned
\* reciprocal-rank list was computed for the same request.
C1_TestsPairSameRequest ==
    pc \in {"friedman", "wilcoxon"} =>
       \A i, j \in DOMAIN detailed_metrics :
          \A k \in 1..stat.min_length : scored_prs[i][k] = scored_prs[j][k]

\* ------------------------------------------------- per-item claims
\* The finished per-item entries: bundle i, position k of its per-item lists.
Items == UNION {{<<i, k>> : k \in DOMAIN scored_prs[i]} : i \in DOMAIN detailed_metrics}

ResultNamed(name) == (CHOOSE a \in Range(algorithm_results) : a.name = name).result

\* The ranked list and the reviewers of the request behind entry x.
RankedOf(x) ==
    SortedRecs(GetPR(ResultNamed(detailed_metrics[x[1]].name), scored_prs[x[1]][x[2]]).items)

ActualOf(x) == GetPR(ground_truth, scored_prs[x[1]][x[2]]).reviewers

ItemOf(x, key) == detailed_metrics[x[1]].metrics.per_pr_scores[key][x[2]]

\* The ranks of the ranked list that hold a ground-truth reviewer.
MatchesOf(x) ==
    LET ranked == RankedOf(x)
        actual == ActualOf(x)
    IN {j \in DOMAIN ranked : ranked[j][1] \in actual}

\* correct@k: the ground-truth reviewers among the first min(k, length) ranks.
CorrectOf(x, k) == Cardinality({j \in MatchesOf(x) : j <= k})

\* C11: for every valid request and k, hit@k is 0 or 1, and
\* hit@k = 1 iff precision@k > 0 iff correct@k > 0.
C11_HitIffPrecisionIffCorrect ==
    \A x \in Items : \A k \in KSet :
       LET hit == ItemOf(x, Key("hit_at_", k))
           precision == ItemOf(x, Key("precision_at_", k))
       IN /\ hit \in {0, 1}
          /\ (hit = 1) <=> FLess(FZero, precision)
          /\ FLess(FZero, precision) <=> (CorrectOf(x, k) > 0)

\* A request missed at k = 1 and hit at k = 3.
C11_Witness ==
    \E x \in Items :
       /\ ItemOf(x, "hit_at_1") = 0
       /\ ItemOf(x, "precision_at_1") = FZero
       /\ ItemOf(x, "hit_at_3") = 1
       /\ CorrectOf(x, 3) = 1

\* C12: the reciprocal rank is 1/r for the first rank r of the full ranked list
\* that holds a ground-truth reviewer, and 0 when no rank does; so it is
\* non-zero iff a ground-truth reviewer appears anywhere in the list.
C12_ReciprocalRankOfFirstMatch ==
    \A x \in Items :
       LET rr == ItemOf(x, "mrr_scores")
       IN /\ IF MatchesOf(x) = {} THEN rr = FZero
             ELSE /\ rr[1] = 1
                  /\ rr[2] \in MatchesOf(x)
                  /\ \A j \in MatchesOf(x) : rr[2] <= j
          /\ (rr # FZero) <=> (MatchesOf(x) # {})

\* The only ground-truth reviewer of the list is at rank 11.
C12_Witness ==
    \E x \in Items :
       /\ ItemOf(x, "mrr_scores") = <<1, 11>>
       /\ MatchesOf(x) = {11}

\* C13: for every valid request idcg >= dcg, so ndcg is in [0,1]: the ranks
\* summed by dcg lie in 1..10, number at most min(|ground truth|, 10), the i-th
\* smallest of them is at least i, and idcg sums ranks 1..min(|ground truth|, 10);
\* the discount 1/log2(r + 1) falls as r grows.
C13_DcgAtMostIdcg ==
    \A x \in Items :
       LET ndcg == ItemOf(x, "ndcg_scores")
       IN /\ ndcg.dcg = ItemOf(x, "dcg_scores")
          /\ ndcg.dcg = {j \in MatchesOf(x) : j <= 10}
          /\ ndcg.idcg = 1..Min(Cardinality(ActualOf(x)), 10)
          /\ Cardinality(ndcg.dcg) <= Cardinality(ndcg.idcg)
          /\ \A r \in ndcg.dcg : Cardinality({q \in ndcg.dcg : q <= r}) <= r

\* Two ground-truth reviewers at ranks 10 and 11: dcg counts rank 10 only.
C13_Witness ==
    \E x \in Items :
       /\ MatchesOf(x) = {10, 11}
       /\ ItemOf(x, "ndcg_scores") = [dcg |-> {10}, idcg |-> 1..2]

\* The inputs of the worked example are the inputs of this run.
IsExample ==
    \E inp \in ExampleInputs :
       /\ pull_requests_list = inp.prs
       /\ reviews_list = inp.reviews
       /\ algorithm_results = inp.algos

\* C14: with ground truth {1: {alice, bob}} and scores carol 0.9, alice 0.8,
\* bob 0.7 for request 1, precision@1 = 0, precision@3 = 2/3, recall@1 = 0,
\* recall@3 = 1, reciprocal rank = 1/2, average precision = 7/12 and dcg sums the
\* discounts of ranks 2 and 3 only.
C14_WorkedExample ==
    IsExample =>
       \A x \in Items :
          /\ ItemOf(x, "precision_at_1") = FZero
          /\ ItemOf(x, "precision_at_3") = <<2, 3>>
          /\ ItemOf(x, "recall_at_1") = FZero
          /\ ItemOf(x, "recall_at_3") = <<1, 1>>
          /\ ItemOf(x, "mrr_scores") = <<1, 2>>
          /\ ItemOf(x, "ap_scores") = <<7, 12>>
          /\ ItemOf(x, "dcg_scores") = {2, 3}

\* The example was scored, from the dict that holds bob first and carol last.
C14_Witness ==
    /\ IsExample
    /\ algorithm_results[1].result[1].items[1][1] = "bob"
    /\ Items = {<<1, 1>>}
    /\ detailed_metrics[1].metrics.basic_stats.valid_prs = 1

\* C19: for every valid request and k, precision@k = correct@k / k, where
\* correct@k counts the ground-truth reviewers among the first min(k, length)
\* ranks; a ranked list shorter than k never reaches precision@k = 1.
C19_PrecisionOverFixedK ==
    \A x \in Items : \A k \in KSet :
       LET precision == ItemOf(x, Key("precision_at_", k))
       IN /\ precision = Frac(CorrectOf(x, k), k)
          /\ CorrectOf(x, k) <= Min(k, Len(RankedOf(x)))
          /\ Len(RankedOf(x)) < k => FLess(precision, <<1, 1>>)

\* A list of two candidates, both ground-truth reviewers: precision@3 = 2/3.
C19_Witness ==
    \E x \in Items :
       /\ Len(RankedOf(x)) = 2
       /\ CorrectOf(x, 3) = 2
       /\ ItemOf(x, "precision_at_3") = <<2, 3>>

\* The sum over the ranks r of `rest` of (matches of M up to r) / r.
RECURSIVE SumRunning(_, _)
SumRunning(M, rest) ==
    IF rest = {} THEN FZero
    ELSE LET r == CHOOSE q \in rest : TRUE
         IN FAdd(Frac(Cardinality({q \in M : q <= r}), r), SumRunning(M, rest \ {r}))

\* C20: average precision is the mean, over the matching ranks r of the full
\* ranked list, of (matches up to and including r) / r, and 0 without a match;
\* it is non-zero exactly when the reciprocal rank is non-zero.
C20_AveragePrecisionIsMean ==
    \A x \in Items :
       LET ap == ItemOf(x, "ap_scores")
           M == MatchesOf(x)
       IN /\ ap = IF M = {} THEN FZero
                  ELSE FDiv(SumRunning(M, M), <<Cardinality(M), 1>>)
          /\ (ap # FZero) <=> (ItemOf(x, "mrr_scores") # FZero)

\* Matches at ranks 1 and 3: average precision = (1/1 + 2/3) / 2 = 5/6.
C20_Witness ==
    \E x \in Items :
       /\ MatchesOf(x) = {1, 3}
       /\ ItemOf(x, "ap_scores") = <<5, 6>>

\* ---------------------------------------------------------- rankings
\* The position of the bundle named `name` in the bundle set.
BundleIndex(name) == CHOOSE i \in DOMAIN detailed_metrics : detailed_metrics[i].name = name

\* C16: when _display_comparative_analysis returns, each of the six rankings lists every algorithm of the bundle set exactly
\* once, with its metric or 0 when the metric is absent, in non-increasing order
\* of the value; algorithms of equal value keep the order of the bundle set.
C16_RankingsSortedStable ==
    (pc = "stat" /\ Len(detailed_metrics) > 1) =>
       /\ [k \in DOMAIN rankings |-> rankings[k].label]
             = <<"MRR", "MAP", "Precision@5", "Recall@5", "F1@5", "NDCG@10">>
       /\ \A k \in DOMAIN rankings :
             LET rows == rankings[k].rows
                 m == RankingMetricsList[k]
             IN /\ Len(rows) = Len(detailed_metrics)
                /\ \A i \in DOMAIN detailed_metrics :
                      Cardinality({j \in DOMAIN rows : rows[j].algo = detailed_metrics[i].name}) = 1
                /\ \A j \in DOMAIN rows :
                      LET metrics == detailed_metrics[BundleIndex(rows[j].algo)].metrics
                      IN IF metrics[m.category] = <<>> THEN rows[j].value = FZero
                         ELSE rows[j].value = RankValue(metrics, m)
                /\ \A a, b \in DOMAIN rows :
                      a < b =>
                         /\ FLeq(rows[b].value, rows[a].value)
                         /\ rows[a].value = rows[b].value
                               => BundleIndex(rows[a].algo) < BundleIndex(rows[b].algo)

\* Three algorithms with distinct MRR values, the best of them last in the bundle
\* set and first in the ranking.
C16_Witness ==
    /\ pc = "stat"
    /\ Len(detailed_metrics) = 3
    /\ LET rows == rankings[1].rows
       IN /\ rows[1].algo = detailed_metrics[3].name
          /\ FLess(rows[2].value, rows[1].value)
          /\ FLess(rows[3].value, rows[2].value)

\* ------------------------------------------------------------- export
\* The positions of the log that hold entry e.
LogAt(e) == {i \in DOMAIN log : log[i] = e}

\* C17: the JSON record is written before the tabular export is attempted; when
\* pandas is missing the record is still there, the tabular export is skipped
\* with a notice, nothing is raised and evaluate_algorithms returns the bundles.
C17_JsonBeforeCsv ==
    /\ pc = "save_csv" => LogAt("json_written") # {}
    /\ \A i \in LogAt("csv_written") \cup LogAt("csv_skipped") :
          \E j \in LogAt("json_written") : j < i
    /\ (pc \in {"return", "done"} /\ returned.kind # "exception" /\ ~EmptyInput) =>
          LogAt("json_written") # {}
    /\ (pc \in {"return", "done"} /\ LogAt("json_written") # {}) =>
          /\ returned.kind # "exception"
          /\ LogAt("csv_written") \cup LogAt("csv_skipped") # {}
    /\ LogAt("csv_skipped") # {} =>
          /\ LogAt("csv_written") = {}
          /\ returned.kind # "exception"
          /\ pc = "done" => returned = [kind |-> "value", value |-> detailed_metrics]

\* pandas was missing: the JSON record is written, the CSV is skipped with a
\* notice and the two bundles are returned.
C17_Witness ==
    /\ pc = "done"
    /\ LogAt("csv_skipped") # {}
    /\ LogAt("json_written") # {}
    /\ returned.kind = "value"
    /\ Len(returned.value) = 2

\* A step of _perform_statistical_testing leaves the bundle set alone, raises
\* nothing and stays in the tester or goes on to the export.
TesterKeepsBundles ==
    pc \in {"stat", "friedman", "wilcoxon"} =>
       /\ detailed_metrics' = detailed_metrics
       /\ returned' = returned
       /\ pc' \in {"friedman", "wilcoxon", "save"}

\* C18: no failure inside significance testing aborts the evaluation.  Once the
\* comparison was made nothing is raised, the steps of the tester leave the bundle
\* set alone and lead to the export, and evaluate_algorithms returns the whole
\* bundle set after writing it; with scipy missing no test is computed at all.
C18_TestingFailuresNotFatal ==
    /\ [](/\ Mentions("comparison") => returned.kind # "exception"
          /\ (pc = "done" /\ Mentions("comparison")) =>
                /\ returned = [kind |-> "value", value |-> detailed_metrics]
                /\ Len(returned.value) = Cardinality({a \in Range(algorithm_results) : a.result # <<>>})
                /\ Mentions("json_written")
          /\ Mentions("scipy_not_installed") => stat = NoStat)
    /\ [][TesterKeepsBundles]_vars

\* A Wilcoxon test of three algorithms raised; the three bundles are returned.
C18_Witness ==
    /\ pc = "done"
    /\ Mentions("error_in_statistical_testing")
    /\ stat.friedman \in {"p_lt_05", "p_ge_05", "nan"}
    /\ Mentions("json_written")
    /\ returned = [kind |-> "value", value |-> detailed_metrics]
    /\ Len(returned.value) = 3

InsertedOf(x) == GetPR(ResultNamed(detailed_metrics[x[1]].name), scored_prs[x[1]][x[2]]).items

\* The rank of the j-th inserted candidate: one more than the number of
\* candidates with a greater score, or an equal score and an earlier insertion.
ExpectedRank(items, j) ==
    1 + Cardinality({i \in DOMAIN items :
                        \/ items[i][2] > items[j][2]
                        \/ items[i][2] = items[j][2] /\ i < j})

\* C21: the ranked list holds the candidates by descending score, equal scores in
\* insertion order, and the @k metrics use the first k entries of that order.
C21_RankedByScoreStable ==
    \A x \in Items :
       LET items == InsertedOf(x)
           ranked == RankedOf(x)
           top(k) == {items[j][1] : j \in {i \in DOMAIN items : ExpectedRank(items, i) <= k}}
       IN /\ Len(ranked) = Len(items)
          /\ \A j \in DOMAIN items : ranked[ExpectedRank(items, j)] = items[j]
          /\ \A k \in KSet :
                /\ ItemOf(x, Key("precision_at_", k)) = Frac(Cardinality(top(k) \cap ActualOf(x)), k)
                /\ ItemOf(x, Key("recall_at_", k))
                      = Frac(Cardinality(top(k) \cap ActualOf(x)), Cardinality(ActualOf(x)))
                /\ ItemOf(x, Key("hit_at_", k)) = IF top(k) \cap ActualOf(x) # {} THEN 1 ELSE 0

\* Every candidate has the same score; the first inserted of them is the only
\* ground-truth reviewer and is ranked first.
C21_Witness ==
    \E x \in Items :
       LET items == InsertedOf(x)
       IN /\ Len(items) >= 3
          /\ \A j \in DOMAIN items : items[j][2] = items[1][2]
          /\ ActualOf(x) = {items[1][1]}
          /\ ItemOf(x, "hit_at_1") = 1

\* ------------------------------------------------------ valid requests
\* The requests that are keys of the ground truth and keys of the result with a
\* non-empty candidate map, in ground-truth key order.
ValidRequests(result) ==
    LET kept == SelectSeq(ground_truth,
                          LAMBDA g : \E e \in Range(result) : e.pr = g.pr /\ e.items # <<>>)
    IN [k \in DOMAIN kept |-> kept[k].pr]

\* C22: valid_prs counts exactly the requests of the ground truth that the result
\* holds with a non-empty candidate map; only these feed the per-item lists, so a
\* request with an empty ranked list or outside the ground truth contributes
\* nothing; coverage = valid_prs / |ground truth|.
C22_ValidRequestsCounted ==
    \A i \in DOMAIN detailed_metrics :
       LET valid == ValidRequests(ResultNamed(detailed_metrics[i].name))
           metrics == detailed_metrics[i].metrics
       IN /\ metrics.basic_stats.valid_prs = Len(valid)
          /\ scored_prs[i] = valid
          /\ \A key \in PerPrKeys : Len(metrics.per_pr_scores[key]) = Len(valid)
          /\ metrics.basic_stats.coverage = Frac(Len(valid), Len(ground_truth))

\* Two requests in the ground truth; the result ranks candidates for one of them
\* and holds an empty dict for the other: valid_prs = 1, coverage = 1/2.
C22_Witness ==
    /\ Len(ground_truth) = 2
    /\ \E i \in DOMAIN detailed_metrics :
          LET result == ResultNamed(detailed_metrics[i].name)
          IN /\ Len(result) = 2
             /\ \E e \in Range(result) : e.items = <<>>
             /\ detailed_metrics[i].metrics.basic_stats.valid_prs = 1
             /\ detailed_metrics[i].metrics.basic_stats.coverage = <<1, 2>>

\* ---------------------------------------------------------------- C23
StabilityNames == {"mrr", "ap_scores", "precision_at_5", "recall_at_5"}

StabilityFields == {"q1", "q3", "iqr", "median", "std", "cv"}

\* C23: an algorithm with n > 0 valid requests has a stability record for each
\* of reciprocal rank, average precision, precision@5 and recall@5, and every
\* record holds q1, q3, iqr, median, std and the coefficient of variation;
\* with n = 0 there is no stability record at all.
C23_StabilityRecordsComplete ==
    \A i \in DOMAIN detailed_metrics :
       LET metrics == detailed_metrics[i].metrics
           stability == metrics.stability_metrics
       IN IF metrics.basic_stats.valid_prs > 0
          THEN /\ DOMAIN stability = StabilityNames
               /\ \A name \in StabilityNames : DOMAIN stability[name] = StabilityFields
          ELSE stability = <<>>

\* ---------------------------------------------------------------- C24
\* The three best performers: the entry of insights and the value compared.
BestPerformers ==
    {<<"best_mrr", "ranking_metrics", "mrr">>,
     <<"best_map", "ranking_metrics", "map">>,
     <<"best_f1_5", "f1_metrics", "f1_at_5">>}

\* The algorithms of the bundle set that have a stability record of the reciprocal rank.
WithStability == {i \in DOMAIN detailed_metrics :
                     "mrr" \in DOMAIN detailed_metrics[i].metrics.stability_metrics}

\* C24: when the insights have been displayed, each best performer (MRR, MAP,
\* F1@5) is the first algorithm of the bundle set whose value (0 when absent)
\* is maximal; the most stable algorithm has stability data and the least IQR
\* of the reciprocal rank among the algorithms that have it, and is left out
\* when no algorithm has stability data.
C24_BestPerformers ==
    (pc = "stat" /\ Len(detailed_metrics) > 1) =>
       /\ \A b \in BestPerformers :
             \E i \in DOMAIN detailed_metrics :
                LET value(j) == DictGet(detailed_metrics[j].metrics[b[2]], b[3])
                IN /\ insights[b[1]] = detailed_metrics[i].name
                   /\ \A j \in DOMAIN detailed_metrics : FLeq(value(j), value(i))
                   /\ \A j \in 1..(i - 1) : FLess(value(j), value(i))
       /\ IF WithStability = {}
          THEN insights.most_stable = <<>>
          ELSE /\ Len(insights.most_stable) = 1
               /\ \E i \in WithStability :
                     LET iqr(j) == detailed_metrics[j].metrics.stability_metrics["mrr"].iqr
                     IN /\ insights.most_stable[1].name = detailed_metrics[i].name
                        /\ insights.most_stable[1].iqr = iqr(i)
                        /\ \A j \in WithStability : FLeq(iqr(i), iqr(j))

\* Two algorithms tie on a positive MRR and the first of them is named best;
\* both have stability data.
C24_Witness ==
    /\ pc = "stat"
    /\ Len(detailed_metrics) > 1
    /\ \E i, j \in DOMAIN detailed_metrics :
          /\ i < j
          /\ insights.best_mrr = detailed_metrics[i].name
          /\ "mrr" \in DOMAIN detailed_metrics[i].metrics.ranking_metrics
          /\ "mrr" \in DOMAIN detailed_metrics[j].metrics.ranking_metrics
          /\ detailed_metrics[i].metrics.ranking_metrics["mrr"]
                = detailed_metrics[j].metrics.ranking_metrics["mrr"]
          /\ FLess(FZero, detailed_metrics[i].metrics.ranking_metrics["mrr"])
    /\ Len(insights.most_stable) = 1

\* No algorithm of the bundle set has stability data: no most stable algorithm.
C24_NoneStable ==
    /\ pc = "stat"
    /\ Len(detailed_metrics) > 1
    /\ WithStability = {}
    /\ insights.most_stable = <<>>

\* ---------------------------------------------------------------- C25
\* Significance testing proceeded: the library was there, two or more lists,
\* each of MIN_SAMPLES elements or more.
TestingProceeded ==
    /\ pc \in PostStat
    /\ ~Mentions("scipy_not_installed")
    /\ Len(detailed_metrics) >= 2
    /\ ShortOf(detailed_metrics) = {}

\* C25 as stated: when significance testing proceeds, the Friedman test has run
\* first and then every unordered pair (i < j, in bundle order) has been given
\* to the Wilcoxon test exactly once, whatever the Friedman p-value; a pair is
\* flagged significant iff its p-value is below 0.05.
C25_EveryPairTestedOnce ==
    TestingProceeded =>
       /\ stat.friedman # "not_run"
       /\ \A i, j \in DOMAIN detailed_metrics :
             i < j => Cardinality({k \in DOMAIN stat.pairs :
                                      stat.pairs[k].algo1 = i /\ stat.pairs[k].algo2 = j}) = 1
       /\ \A k \in DOMAIN stat.pairs :
             /\ stat.pairs[k].algo1 < stat.pairs[k].algo2
             /\ stat.pairs[k].sig <=> stat.pairs[k].p = "p_lt_05"
             /\ \A l \in DOMAIN stat.pairs :
                   k < l => \/ stat.pairs[k].algo1 < stat.pairs[l].algo1
                            \/ /\ stat.pairs[k].algo1 = stat.pairs[l].algo1
                               /\ stat.pairs[k].algo2 < stat.pairs[l].algo2
       /\ \A f \in LogAt("friedman") : \A w \in LogAt("wilcoxon") : f < w

\* ---------------------------------------------------------------- C26
\* The notices of the comparison and of the significance testing.
AnalysisNotices ==
    {"comparison", "scipy_not_installed", "need_two_algorithms", "not_enough_data",
     "friedman", "wilcoxon", "error_in_statistical_testing"}

\* C26 as stated: the comparison and the significance testing start only when
\* every algorithm with a non-empty result has its bundle and 2 or more bundles
\* exist; the export comes after them and is made exactly once in every run
\* that passed the empty-input checks, with one bundle or none as well.
C26_ExportOncePerRun ==
    /\ pc \in {"compare", "stat", "friedman", "wilcoxon"} =>
          /\ Len(detailed_metrics) >= 2
          /\ [i \in DOMAIN detailed_metrics |-> detailed_metrics[i].name] = NonEmptyNames
    /\ (\E e \in AnalysisNotices : Mentions(e)) => Len(detailed_metrics) >= 2
    /\ \A s \in LogAt("json_written") :
          \A i \in DOMAIN log : log[i] \in AnalysisNotices => i < s
    /\ Cardinality(LogAt("json_written")) <= 1
    /\ (pc = "done" /\ ~EmptyInput) => Cardinality(LogAt("json_written")) = 1

\* The same without the runs in which a metric computation raises.
C26_ExportOnceUnlessRaised ==
    /\ pc \in {"compare", "stat", "friedman", "wilcoxon"} =>
          /\ Len(detailed_metrics) >= 2
          /\ [i \in DOMAIN detailed_metrics |-> detailed_metrics[i].name] = NonEmptyNames
    /\ (\E e \in AnalysisNotices : Mentions(e)) => Len(detailed_metrics) >= 2
    /\ \A s \in LogAt("json_written") :
          \A i \in DOMAIN log : log[i] \in AnalysisNotices => i < s
    /\ Cardinality(LogAt("json_written")) <= 1
    /\ (pc = "done" /\ ~EmptyInput /\ returned.kind # "exception") =>
          Cardinality(LogAt("json_written")) = 1

\* ---------------------------------------------------------------- C27
\* A step keeps the caller's data, the ground truth once it is built, and every
\* bundle already in the bundle set; after the loop over the algorithms the
\* bundle set does not change at all.
FrameKept ==
    /\ pull_requests_list' = pull_requests_list
    /\ reviews_list' = reviews_list
    /\ algorithm_results' = algorithm_results
    /\ pc # "new" => ground_truth' = ground_truth
    /\ \A i \in DOMAIN detailed_metrics :
          i \in DOMAIN detailed_metrics' /\ detailed_metrics'[i] = detailed_metrics[i]
    /\ pc \in {"compare", "stat", "friedman", "wilcoxon", "save", "save_csv", "return"} =>
          detailed_metrics' = detailed_metrics

\* C27: no step of a run (metric computation, comparison, significance testing,
\* export) changes the ground truth built at construction or the result maps
\* given by the caller; computing one algorithm's bundle changes no other
\* bundle; cutting the lists to the common length for the tests leaves the
\* lists stored in the bundles as they were.
C27_RunKeepsInputsAndBundles == [][FrameKept]_vars

\* The tests ran on lists cut to the common length, and a bundle still holds
\* its longer list after the export.
C27_Witness ==
    /\ pc = "done"
    /\ stat.min_length >= MIN_SAMPLES
    /\ stat.friedman # "not_run"
    /\ \E i \in DOMAIN detailed_metrics :
          Len(detailed_metrics[i].metrics.per_pr_scores["mrr_scores"]) > stat.min_length
    /\ returned = [kind |-> "value", value |-> detailed_metrics]
    /\ Mentions("json_written")

\* ---------------------------------------------------------------- C28
\* The 20 per-item values of request p under a result, computed on their own.
ExpectedItem(result, p) ==
    AppendItem(EmptyPerPr, SortedRecs(GetPR(result, p).items),
               (CHOOSE g \in Range(ground_truth) : g.pr = p).reviewers)

\* Every per-item list has one element per request of prs, and element i is the
\* value of request prs[i].
ListsFollow(per_pr, prs, result) ==
    /\ \A key \in PerPrKeys : Len(per_pr[key]) = Len(prs)
    /\ \A i \in DOMAIN prs :
          LET item == ExpectedItem(result, prs[i])
          IN \A key \in PerPrKeys : per_pr[key][i] = item[key][1]

\* The valid requests among the first n keys of the ground truth, in key order.
ValidAmongFirst(result, n) ==
    LET kept == SelectSeq(SubSeq(ground_truth, 1, n),
                          LAMBDA g : \E e \in Range(result) : e.pr = g.pr /\ e.items # <<>>)
    IN [k \in DOMAIN kept |-> kept[k].pr]

\* C28: after every iteration of the loop over the ground-truth requests, and
\* when _calculate_algorithm_metrics is done, each of the 20 per-item lists
\* has exactly valid_prs elements and element i is the value of the i-th valid
\* request in ground-truth key order.
C28_PerItemListsAligned ==
    /\ pc = "pr_loop" =>
          /\ Cardinality(PerPrKeys) = 20
          /\ acc.pr_nums = ValidAmongFirst(CurResult, gt_idx - 1)
          /\ acc.valid_prs = Len(acc.pr_nums)
          /\ ListsFollow(acc.per_pr_metrics, acc.pr_nums, CurResult)
    /\ pc = "algo_loop" =>
          \A i \in DOMAIN detailed_metrics :
             LET metrics == detailed_metrics[i].metrics
                 result == ResultNamed(detailed_metrics[i].name)
             IN /\ scored_prs[i] = ValidAmongFirst(result, Len(ground_truth))
                /\ metrics.basic_stats.valid_prs = Len(scored_prs[i])
                /\ ListsFollow(metrics.per_pr_scores, scored_prs[i], result)

\* In the loop: the first request of the ground truth was skipped and the second
\* scored, so element 1 of the lists belongs to the second request, whose
\* reviewer is ranked second: a miss at k = 1 is appended as 0.
C28_Witness ==
    /\ pc = "pr_loop"
    /\ gt_idx = 3
    /\ acc.valid_prs = 1
    /\ acc.pr_nums = <<ground_truth[2].pr>>
    /\ acc.per_pr_metrics["mrr_scores"] = <<Frac(1, 2)>>
    /\ acc.per_pr_metrics["hit_at_1"] = <<0>>
    /\ acc.per_pr_metrics["hit_at_10"] = <<1>>

\* ---------------------------------------------------------------- C29
\* The sum of the per-item hit@k list of a bundle.
HitSum(metrics, k) == ISum(metrics.per_pr_scores[Key("hit_at_", k)])

\* C29: while the requests are scored the hit counter of each k is the sum of
\* the per-item hit@k list; for every bundle with n > 0, hit_rate@k is that sum
\* over n, the sums do not decrease with k, and successful_recommendations
\* (the requests with a match anywhere in the full list) is at least hits@10
\* and at most n, so recommendation_success_rate >= hit_rate@10.
C29_HitCountsConsistent ==
    /\ pc = "pr_loop" =>
          \A k \in KSet : acc.hits_at_k[k] = ISum(acc.per_pr_metrics[Key("hit_at_", k)])
    /\ \A i \in DOMAIN detailed_metrics :
          LET metrics == detailed_metrics[i].metrics
              n == metrics.basic_stats.valid_prs
          IN n > 0 =>
                LET successful == metrics.other_metrics.successful_recommendations
                IN /\ \A k \in KSet :
                         metrics.precision_metrics[Key("hit_rate_at_", k)]
                            = Frac(HitSum(metrics, k), n)
                   /\ HitSum(metrics, 1) <= HitSum(metrics, 3)
                   /\ HitSum(metrics, 3) <= HitSum(metrics, 5)
                   /\ HitSum(metrics, 5) <= HitSum(metrics, 10)
                   /\ successful
                         = Cardinality({k \in DOMAIN scored_prs[i] : MatchesOf(<<i, k>>) # {}})
                   /\ HitSum(metrics, 10) <= successful
                   /\ successful <= n
                   /\ metrics.other_metrics.recommendation_success_rate = Frac(successful, n)
                   /\ FLeq(metrics.precision_metrics["hit_rate_at_10"],
                           metrics.other_metrics.recommendation_success_rate)

\* Two valid requests: the reviewer of one is found at rank 2, the reviewer of
\* the other only past rank 10, so hits@1 = 0 < hits@3 = hits@10 = 1 <
\* successful_recommendations = 2 = n.
C29_Witness ==
    \E i \in DOMAIN detailed_metrics :
       LET metrics == detailed_metrics[i].metrics
       IN /\ metrics.basic_stats.valid_prs = 2
          /\ HitSum(metrics, 1) = 0
          /\ HitSum(metrics, 3) = 1
          /\ HitSum(metrics, 10) = 1
          /\ metrics.other_metrics.successful_recommendations = 2
          /\ metrics.precision_metrics["hit_rate_at_10"] = Frac(1, 2)
          /\ metrics.other_metrics.recommendation_success_rate = Frac(1, 1)

\* ---------------------------------------------------------------- C30
\* The length of the shortest reciprocal-rank list of the bundle set.
ShortestList ==
    CHOOSE n \in {Len(MrrScores(detailed_metrics, i)) : i \in DOMAIN detailed_metrics} :
       \A i \in DOMAIN detailed_metrics : n <= Len(MrrScores(detailed_metrics, i))

\* C30: the common length used by the tester is the minimum over every
\* algorithm of the bundle set, one with an empty reciprocal-rank list
\* included; when 2 or more bundles exist and any of them has fewer than 10
\* valid requests, no Friedman and no Wilcoxon test is run, however long the
\* other lists are.
C30_ShortestListDecides ==
    (pc # "stat" /\ ~Mentions("scipy_not_installed") /\ Len(detailed_metrics) >= 2) =>
       /\ stat.n_scores = Len(detailed_metrics)
       /\ stat.min_length = ShortestList
       /\ ShortOf(detailed_metrics) # {} =>
             /\ pc = "save"
             /\ stat.friedman = "not_run"
             /\ stat.pairs = <<>>
             /\ ~Mentions("friedman")
             /\ ~Mentions("wilcoxon")
             /\ ~Mentions("error_in_statistical_testing")
             /\ Mentions("not_enough_data")

\* Two algorithms with MIN_SAMPLES scores or more and a third one with no valid
\* request: the common length is 0 and no test was run.
C30_Witness ==
    /\ pc = "save"
    /\ Len(detailed_metrics) = 3
    /\ Len(MrrScores(detailed_metrics, 1)) >= MIN_SAMPLES
    /\ Len(MrrScores(detailed_metrics, 2)) >= MIN_SAMPLES
    /\ MrrScores(detailed_metrics, 3) = <<>>
    /\ stat.min_length = 0
    /\ stat.friedman = "not_run"
    /\ log = <<"not_enough_data">>

====
